---- MODULE Spec2Model ----
(***************************************************************************)
(* Reconstruction data store and measurement engine of metroa-demo:        *)
(*   colmap_binary_parser.py  COLMAPBinaryParser, MeasurementSystem        *)
(*   calibration_system.py    CalibrationSystem                            *)
(*                                                                         *)
(* Reals are exact rationals <<num, den>> (den > 0, lowest terms).  The    *)
(* inputs are chosen so that every Euclidean norm the model takes is a     *)
(* rational number, so the arithmetic below is the arithmetic of the code  *)
(* without rounding.                                                       *)
(***************************************************************************)
EXTENDS Integers, Sequences, FiniteSets, TLC

VARIABLES
    cameras, images, points3D,  \* MeasurementSystem.cameras / images / points3D
    scale_factor,               \* MeasurementSystem.scale_factor
    measurements,               \* MeasurementSystem.measurements
    last,                       \* outcome of the last MeasurementSystem call
    calls,                      \* arguments of the successful calibrate_scale calls, in order
    fs,                         \* the three files of sparse_path: "absent" or bytes
    lpc,                        \* position inside load_reconstruction
    checked,                    \* files whose existence load_reconstruction has tested
    ps,                         \* state of the read_* call in progress
    got,                        \* locals cameras, images, points3D of load_reconstruction
    cs,                         \* CalibrationSystem instance fields
    disk,                       \* content of the calibration file
    cslast,                     \* outcome of the last CalibrationSystem call
    saved,                      \* what the last _save_calibration did to the file
    obj,                        \* the class of the object under test
    sparse,                     \* the directories of COLMAPProcessor.sparse_path
    best,                       \* what the last _find_best_model returned
    start,                      \* the reconstruction as load_reconstruction returned it
    arg,                        \* the arguments of the last apply_scale call, as they are now
    ret,                        \* what the last apply_scale call returned
    factors,                    \* the scale factors applied to start, in order
    cpc,                        \* position of the thread inside calibrate_scale
    tmp,                        \* the tuple apply_scale returned to calibrate_scale
    pre,                        \* the session as the calibrate_scale in progress found it
    obs                         \* what a second thread read from the session

vars == <<cameras, images, points3D, scale_factor, measurements, last, calls,
          fs, lpc, checked, ps, got, cs, disk, cslast, saved, obj, sparse, best,
          start, arg, ret, factors, cpc, tmp, pre, obs>>

msVars == <<cameras, images, points3D, scale_factor, measurements, last, calls>>
ldVars == <<fs, lpc, checked, ps, got>>
csVars == <<cs, disk, cslast, saved, obj>>
selVars == <<sparse, best>>
scVars == <<start, arg, ret, factors>>
ccVars == <<cpc, tmp, pre, obs>>

-----------------------------------------------------------------------------
(* Exact rational arithmetic standing for float64 arithmetic.              *)

Abs(n) == IF n < 0 THEN -n ELSE n

RECURSIVE GCD(_, _)
GCD(a, b) == IF b = 0 THEN a ELSE GCD(b, a % b)

LCM(a, b) == (a \div GCD(a, b)) * b

RatBy(n, d, g) == IF d < 0 THEN <<(-n) \div g, (-d) \div g>> ELSE <<n \div g, d \div g>>

Rat(n, d) == RatBy(n, d, GCD(Abs(n), Abs(d)))

R(n) == <<n, 1>>

RAddOver(a, b, l) == Rat(a[1] * (l \div a[2]) + b[1] * (l \div b[2]), l)

RAdd(a, b) == RAddOver(a, b, LCM(a[2], b[2]))

RNeg(a) == <<-a[1], a[2]>>

RSub(a, b) == RAdd(a, RNeg(b))

RMulRed(x, y) == Rat(x[1] * y[1], x[2] * y[2])

RMul(a, b) == RMulRed(Rat(a[1], b[2]), Rat(b[1], a[2]))

RDiv(a, b) == RMul(a, IF b[1] < 0 THEN <<-b[2], -b[1]>> ELSE <<b[2], b[1]>>)

RLt(a, b) == a[1] * b[2] < b[1] * a[2]

RPos(a) == a[1] > 0

\* the integer square root, by bisection of lo..hi
RECURSIVE ISqrtIn(_, _, _)
ISqrtIn(n, lo, hi) ==
    IF lo >= hi THEN lo
    ELSE IF ((lo + hi + 1) \div 2) * ((lo + hi + 1) \div 2) <= n
         THEN ISqrtIn(n, (lo + hi + 1) \div 2, hi)
         ELSE ISqrtIn(n, lo, ((lo + hi + 1) \div 2) - 1)

ISqrt(n) == ISqrtIn(n, 0, IF n < 46340 THEN n ELSE 46340)

VSub(a, b) == <<RSub(a[1], b[1]), RSub(a[2], b[2]), RSub(a[3], b[3])>>

VScale(v, f) == <<RMul(v[1], f), RMul(v[2], f), RMul(v[3], f)>>

\* np.linalg.norm: sqrt(x^2 + y^2 + z^2).  The vector is g/l times an
\* integer vector (a, b, c) without common factor, whose squares stay small.
NormOf(l, g, a, b, c) ==
    IF g = 0 THEN R(0)
    ELSE RMul(Rat(g, l),
              R(ISqrt((a \div g) * (a \div g) + (b \div g) * (b \div g)
                      + (c \div g) * (c \div g))))

NormInt(l, a, b, c) == NormOf(l, GCD(Abs(a), GCD(Abs(b), Abs(c))), a, b, c)

NormLcm(v, l) ==
    NormInt(l, v[1][1] * (l \div v[1][2]), v[2][1] * (l \div v[2][2]),
            v[3][1] * (l \div v[3][2]))

Norm(v) == NormLcm(v, LCM(v[1][2], LCM(v[2][2], v[3][2])))

\* COLMAPBinaryParser.calculate_distance
calculate_distance(point1, point2) == Norm(VSub(point2, point1))

-----------------------------------------------------------------------------
(* Python dict: insertion-ordered items <<[k, v], ...>>; None is a         *)
(* distinct value.                                                         *)

NoneDict == [isNone |-> TRUE, items |-> <<>>]
Dict(items) == [isNone |-> FALSE, items |-> items]

Keys(items) == {items[i].k : i \in 1..Len(items)}
Index(items, key) == CHOOSE i \in 1..Len(items) : items[i].k = key
Get(items, key) == items[Index(items, key)].v

\* d[key] = val: a new key is appended, an existing key keeps its position.
DictSet(items, key, val) ==
    IF key \in Keys(items)
    THEN [items EXCEPT ![Index(items, key)] = [k |-> key, v |-> val]]
    ELSE Append(items, [k |-> key, v |-> val])

-----------------------------------------------------------------------------
(* struct.unpack on little-endian bytes.                                   *)

RECURSIVE LE(_)
LE(b) == IF b = <<>> THEN 0 ELSE b[1] + 256 * LE(Tail(b))

\* 'I' and 'Q'
UnpackU(b) == LE(b)

\* 'i': two's complement
UnpackI(b) ==
    IF b[Len(b)] >= 128
    THEN -(LE([i \in 1..Len(b) |-> 255 - b[i]])) - 1
    ELSE LE(b)

\* 'd': the files of the model carry integer-valued reals, each stored as
\* the eight bytes of its integer value.
UnpackD(b) == R(LE(b))

\* '<k>d' and '<k>B'
UnpackDs(b) == [i \in 1..(Len(b) \div 8) |-> UnpackD(SubSeq(b, 8 * i - 7, 8 * i))]
UnpackBs(b) == b

\* COLMAPBinaryParser._get_num_params
get_num_params(model_id) ==
    CASE model_id = 0 -> 3
      [] model_id = 1 -> 4
      [] model_id = 2 -> 4
      [] model_id = 3 -> 5
      [] model_id = 4 -> 8
      [] model_id = 5 -> 8
      [] model_id = 6 -> 12
      [] model_id = 7 -> 10
      [] model_id = 8 -> 10
      [] model_id = 9 -> 11
      [] model_id = 10 -> 12
      [] OTHER -> 4

-----------------------------------------------------------------------------
(* COLMAPBinaryParser.read_cameras / read_images / read_points3D as one    *)
(* step per f.read call.  A reader is                                      *)
(*   [fn, file, pos, pc, n, m, cur, out, status, err]                      *)
(* n and m are the iterations left of the outer and inner for loops, cur   *)
(* the locals of the record being read, out the dict being built.          *)

Min(a, b) == IF a < b THEN a ELSE b

NewCur ==
    [id |-> 0, model |-> 0, width |-> 0, height |-> 0,
     qvec |-> <<>>, tvec |-> <<>>, camera_id |-> 0, name |-> <<>>,
     points2D |-> <<>>, x |-> R(0), y |-> R(0),
     xyz |-> <<>>, rgb |-> <<>>, error |-> R(0), track |-> <<>>, image_id |-> 0]

NoReader ==
    [fn |-> "none", file |-> <<>>, pos |-> 0, pc |-> "none", n |-> 0, m |-> 0,
     cur |-> NewCur, out |-> <<>>, status |-> "none", err |-> "none"]

\* with open(path, 'rb') as f: the dict is empty, the cursor at byte 0
OpenReader(fn, bytes) ==
    [fn |-> fn, file |-> bytes, pos |-> 0, pc |-> "count", n |-> 0, m |-> 0,
     cur |-> NewCur, out |-> <<>>, status |-> "running", err |-> "none"]

\* f.read(k): the k bytes at the cursor, fewer at the end of the file
FRead(p, k) == SubSeq(p.file, p.pos + 1, Min(p.pos + k, Len(p.file)))
Advance(p, k) == [p EXCEPT !.pos = Min(p.pos + k, Len(p.file))]

\* Raise, but the exception is swallowed and the dict read so far returned
RaiseReturnsDict(p, e) == [p EXCEPT !.status = "returned", !.pc = "none"]

\* struct.unpack raises struct.error when handed fewer bytes than the format
Raise(p, e) == [p EXCEPT !.status = "raised", !.err = e, !.pc = "none"]

\* value = struct.unpack(fmt, f.read(k)): struct.error on a short read,
\* else the reader goes on as then, which is stated over the reader past
\* the k bytes, q, and the bytes, b
Field(p, k, then) ==
    IF Len(FRead(p, k)) # k
    THEN Raise(Advance(p, k), "struct.error")
    ELSE then

\* end of one iteration of the outer loop: out[id] = rec, then the next
\* record, or `return out` after the last one
Store(p, rec, first) ==
    LET q == [p EXCEPT !.out = DictSet(p.out, p.cur.id, rec), !.n = p.n - 1,
                       !.cur = NewCur]
    IN  IF q.n > 0 THEN [q EXCEPT !.pc = first]
        ELSE [q EXCEPT !.status = "returned", !.pc = "none"]

\* num = struct.unpack('Q', f.read(8))[0]; for _ in range(num)
Count(p, first) ==
    Field(p, 8,
          LET q == Advance(p, 8)
              b == FRead(p, 8)
          IN  IF UnpackU(b) > 0 THEN [q EXCEPT !.n = UnpackU(b), !.pc = first]
        ELSE [q EXCEPT !.status = "returned", !.pc = "none"])

read_cameras_step(p) ==
    CASE p.pc = "count" -> Count(p, "camera_id")
      [] p.pc = "camera_id" ->
            Field(p, 4,
                  LET q == Advance(p, 4)
                      b == FRead(p, 4)
                  IN  [q EXCEPT !.cur.id = UnpackU(b), !.pc = "model_id"])
      [] p.pc = "model_id" ->
            Field(p, 4,
                  LET q == Advance(p, 4)
                      b == FRead(p, 4)
                  IN  [q EXCEPT !.cur.model = UnpackI(b), !.pc = "width"])
      [] p.pc = "width" ->
            Field(p, 8,
                  LET q == Advance(p, 8)
                      b == FRead(p, 8)
                  IN  [q EXCEPT !.cur.width = UnpackU(b), !.pc = "height"])
      [] p.pc = "height" ->
            Field(p, 8,
                  LET q == Advance(p, 8)
                      b == FRead(p, 8)
                  IN  [q EXCEPT !.cur.height = UnpackU(b), !.pc = "params"])
      [] p.pc = "params" ->
            Field(p, 8 * get_num_params(p.cur.model),
                  LET q == Advance(p, 8 * get_num_params(p.cur.model))
                      b == FRead(p, 8 * get_num_params(p.cur.model))
                  IN  Store(q, [model |-> q.cur.model, width |-> q.cur.width,
                          height |-> q.cur.height, params |-> UnpackDs(b)],
                      "camera_id"))

ImageRec(c) ==
    [qvec |-> c.qvec, tvec |-> c.tvec, camera_id |-> c.camera_id,
     name |-> c.name, points2D |-> c.points2D]

read_images_step(p) ==
    CASE p.pc = "count" -> Count(p, "image_id")
      [] p.pc = "image_id" ->
            Field(p, 4,
                  LET q == Advance(p, 4)
                      b == FRead(p, 4)
                  IN  [q EXCEPT !.cur.id = UnpackU(b), !.pc = "qvec"])
      [] p.pc = "qvec" ->
            Field(p, 32,
                  LET q == Advance(p, 32)
                      b == FRead(p, 32)
                  IN  [q EXCEPT !.cur.qvec = UnpackDs(b), !.pc = "tvec"])
      [] p.pc = "tvec" ->
            Field(p, 24,
                  LET q == Advance(p, 24)
                      b == FRead(p, 24)
                  IN  [q EXCEPT !.cur.tvec = UnpackDs(b), !.pc = "camera_id"])
      [] p.pc = "camera_id" ->
            Field(p, 4,
                  LET q == Advance(p, 4)
                      b == FRead(p, 4)
                  IN  [q EXCEPT !.cur.camera_id = UnpackU(b), !.pc = "name"])
      [] p.pc = "name" ->
            \* while True: char = f.read(1); if char == b'\x00': break; name += char
            \* (the names of the model are ASCII, which decode('utf-8') keeps)
            LET char == FRead(p, 1)
                q == Advance(p, 1)
            IN  IF char = <<0>> THEN [q EXCEPT !.pc = "num_points2D"]
                ELSE [q EXCEPT !.cur.name = p.cur.name \o char]
      [] p.pc = "num_points2D" ->
            Field(p, 8,
                  LET q == Advance(p, 8)
                      b == FRead(p, 8)
                  IN  IF UnpackU(b) > 0 THEN [q EXCEPT !.m = UnpackU(b), !.pc = "x"]
                ELSE Store(q, ImageRec(q.cur), "image_id"))
      [] p.pc = "x" ->
            Field(p, 8,
                  LET q == Advance(p, 8)
                      b == FRead(p, 8)
                  IN  [q EXCEPT !.cur.x = UnpackD(b), !.pc = "y"])
      [] p.pc = "y" ->
            Field(p, 8,
                  LET q == Advance(p, 8)
                      b == FRead(p, 8)
                  IN  [q EXCEPT !.cur.y = UnpackD(b), !.pc = "point3D_id"])
      [] p.pc = "point3D_id" ->
            Field(p, 8,
                  LET q == Advance(p, 8)
                      b == FRead(p, 8)
                  IN  LET r == [q EXCEPT !.cur.points2D =
                              Append(q.cur.points2D, <<q.cur.x, q.cur.y, UnpackU(b)>>),
                          !.m = q.m - 1]
                IN  IF r.m > 0 THEN [r EXCEPT !.pc = "x"]
                    ELSE Store(r, ImageRec(r.cur), "image_id"))

PointRec(c) ==
    [xyz |-> c.xyz, rgb |-> c.rgb, error |-> c.error, track |-> c.track]

read_points3D_step(p) ==
    CASE p.pc = "count" -> Count(p, "point3D_id")
      [] p.pc = "point3D_id" ->
            Field(p, 8,
                  LET q == Advance(p, 8)
                      b == FRead(p, 8)
                  IN  [q EXCEPT !.cur.id = UnpackU(b), !.pc = "xyz"])
      [] p.pc = "xyz" ->
            Field(p, 24,
                  LET q == Advance(p, 24)
                      b == FRead(p, 24)
                  IN  [q EXCEPT !.cur.xyz = UnpackDs(b), !.pc = "rgb"])
      [] p.pc = "rgb" ->
            Field(p, 3,
                  LET q == Advance(p, 3)
                      b == FRead(p, 3)
                  IN  [q EXCEPT !.cur.rgb = UnpackBs(b), !.pc = "error"])
      [] p.pc = "error" ->
            Field(p, 8,
                  LET q == Advance(p, 8)
                      b == FRead(p, 8)
                  IN  [q EXCEPT !.cur.error = UnpackD(b), !.pc = "track_length"])
      [] p.pc = "track_length" ->
            Field(p, 8,
                  LET q == Advance(p, 8)
                      b == FRead(p, 8)
                  IN  IF UnpackU(b) > 0 THEN [q EXCEPT !.m = UnpackU(b), !.pc = "image_id"]
                ELSE Store(q, PointRec(q.cur), "point3D_id"))
      [] p.pc = "image_id" ->
            Field(p, 4,
                  LET q == Advance(p, 4)
                      b == FRead(p, 4)
                  IN  [q EXCEPT !.cur.image_id = UnpackU(b), !.pc = "point2D_idx"])
      [] p.pc = "point2D_idx" ->
            Field(p, 4,
                  LET q == Advance(p, 4)
                      b == FRead(p, 4)
                  IN  LET r == [q EXCEPT !.cur.track =
                              Append(q.cur.track, <<q.cur.image_id, UnpackU(b)>>),
                          !.m = q.m - 1]
                IN  IF r.m > 0 THEN [r EXCEPT !.pc = "image_id"]
                    ELSE Store(r, PointRec(r.cur), "point3D_id"))

ReaderStep(p) ==
    CASE p.fn = "read_cameras" -> read_cameras_step(p)
      [] p.fn = "read_images" -> read_images_step(p)
      [] p.fn = "read_points3D" -> read_points3D_step(p)

\* A whole read_* call: the reader run to its return or its exception.
\* Used on files on which every call ends.
RECURSIVE RunReader(_)
RunReader(p) == IF p.status = "running" THEN RunReader(ReaderStep(p)) ELSE p


-----------------------------------------------------------------------------
(* The reconstruction on disk.  The records below are written in the       *)
(* layout the readers expect: a u64 count, then the records.               *)

RECURSIVE PackU(_, _)
PackU(v, k) == IF k = 0 THEN <<>> ELSE <<v % 256>> \o PackU(v \div 256, k - 1)

\* 'i' of a small model id: -1 is FF FF FF FF
PackI(v) == IF v < 0 THEN [i \in 1..4 |-> 255 - PackU(-v - 1, 4)[i]] ELSE PackU(v, 4)

PackD(v) == PackU(v, 8)

RECURSIVE Concat(_)
Concat(ss) == IF ss = <<>> THEN <<>> ELSE Head(ss) \o Concat(Tail(ss))

PackDs(vs) == Concat([i \in 1..Len(vs) |-> PackD(vs[i])])

PackCamera(c) ==
    PackU(c.id, 4) \o PackI(c.model) \o PackU(c.width, 8) \o PackU(c.height, 8)
    \o PackDs(c.params)

PackImage(im) ==
    PackU(im.id, 4) \o PackDs(im.qvec) \o PackDs(im.tvec) \o PackU(im.camera_id, 4)
    \o im.name \o <<0>> \o PackU(Len(im.points2D), 8)
    \o Concat([i \in 1..Len(im.points2D) |->
                  PackD(im.points2D[i][1]) \o PackD(im.points2D[i][2])
                  \o PackU(im.points2D[i][3], 8)])

PackPoint(pt) ==
    PackU(pt.id, 8) \o PackDs(pt.xyz) \o pt.rgb \o PackD(pt.error)
    \o PackU(Len(pt.track), 8)
    \o Concat([i \in 1..Len(pt.track) |->
                  PackU(pt.track[i][1], 4) \o PackU(pt.track[i][2], 4)])

PackFile(packed) == PackU(Len(packed), 8) \o Concat(packed)

\* Two cameras: a SIMPLE_PINHOLE and one of an unknown model (4 parameters).
SceneCameras ==
    <<[id |-> 1, model |-> 0, width |-> 64, height |-> 48, params |-> <<50, 32, 24>>],
      [id |-> 2, model |-> -1, width |-> 64, height |-> 48, params |-> <<50, 50, 32, 24>>]>>

\* Two images; "a" observes point 1.
SceneImages ==
    <<[id |-> 1, qvec |-> <<1, 0, 0, 0>>, tvec |-> <<3, 4, 12>>, camera_id |-> 1,
       name |-> <<97>>, points2D |-> <<<<5, 6, 1>>>>],
      [id |-> 2, qvec |-> <<1, 0, 0, 0>>, tvec |-> <<0, 0, 5>>, camera_id |-> 2,
       name |-> <<98, 99>>, points2D |-> <<>>]>>

\* Three points on the line t * (9, 12, 20), |(9, 12, 20)| = 25, at t = 0, 2, 7:
\* raw distances 50 (ids 2-1), 125 (1-3) and 175 (2-3).  File order 2, 1, 3.
ScenePoints ==
    <<[id |-> 2, xyz |-> <<0, 0, 0>>, rgb |-> <<10, 20, 30>>, error |-> 1,
       track |-> <<<<1, 0>>>>],
      [id |-> 1, xyz |-> <<18, 24, 40>>, rgb |-> <<40, 50, 60>>, error |-> 2,
       track |-> <<>>],
      [id |-> 3, xyz |-> <<63, 84, 140>>, rgb |-> <<70, 80, 90>>, error |-> 0,
       track |-> <<>>]>>

\* The same points in file order 1, 2, 3.
ScenePointsSorted == <<ScenePoints[2], ScenePoints[1], ScenePoints[3]>>

File(bytes) == [exists |-> TRUE, bytes |-> bytes]
Absent == [exists |-> FALSE, bytes |-> <<>>]

CamerasBin == PackFile([i \in 1..Len(SceneCameras) |-> PackCamera(SceneCameras[i])])
ImagesBin == PackFile([i \in 1..Len(SceneImages) |-> PackImage(SceneImages[i])])
Points3DBin == PackFile([i \in 1..Len(ScenePoints) |-> PackPoint(ScenePoints[i])])
Points3DSortedBin == PackFile([i \in 1..Len(ScenePointsSorted) |-> PackPoint(ScenePointsSorted[i])])

GoodFiles ==
    [cameras |-> File(CamerasBin), images |-> File(ImagesBin),
     points3D |-> File(Points3DBin)]

GoodFilesSorted == [GoodFiles EXCEPT !.points3D = File(Points3DSortedBin)]

\* Complete files that do not fit together: cameras.bin lacks camera 2 of
\* image 2, and point 2 of points3D.bin was observed in an image 7.
DanglingPoints ==
    <<[ScenePoints[1] EXCEPT !.track = <<<<7, 0>>>>], ScenePoints[2], ScenePoints[3]>>

DanglingFiles ==
    [cameras |-> File(PackFile(<<PackCamera(SceneCameras[1])>>)),
     images |-> File(ImagesBin),
     points3D |-> File(PackFile([i \in 1..Len(DanglingPoints) |->
                                    PackPoint(DanglingPoints[i])]))]

FileNames == {"cameras", "images", "points3D"}

\* A file cut short at every byte position
Truncations(bytes) == {File(SubSeq(bytes, 1, k)) : k \in 0..(Len(bytes) - 1)}

\* The directories load_reconstruction is run on: complete; any files
\* absent; one file truncated.
FileSystems ==
    {GoodFiles, GoodFilesSorted, DanglingFiles}
    \cup {[f \in FileNames |-> IF f \in A THEN Absent ELSE GoodFiles[f]] :
             A \in (SUBSET FileNames) \ {{}}}
    \cup UNION {{[GoodFiles EXCEPT ![f] = t] : t \in Truncations(GoodFiles[f].bytes)} :
                   f \in FileNames}


-----------------------------------------------------------------------------
(* Outcomes of calls: a return value or a raised exception.                *)

Ok(op, args, val) == [op |-> op, args |-> args, ok |-> TRUE, err |-> "none", val |-> val]
Err(op, args, e, what) == [op |-> op, args |-> args, ok |-> FALSE, err |-> e, val |-> what]
NoCall == [op |-> "none", args |-> <<>>, ok |-> TRUE, err |-> "none", val |-> <<>>]

-----------------------------------------------------------------------------
(* COLMAPBinaryParser.load_reconstruction, one step per existence test,    *)
(* per f.read and per return; MeasurementSystem.load_reconstruction        *)
(* assigns the returned tuple.                                             *)

CheckOrder == <<"cameras", "images", "points3D">>

ReaderOf(f) ==
    CASE f = "cameras" -> "read_cameras"
      [] f = "images" -> "read_images"
      [] f = "points3D" -> "read_points3D"

NoGot == [cameras |-> <<>>, images |-> <<>>, points3D |-> <<>>]

\* measurement_system.load_reconstruction() is called on the directory as
\* it is at that moment
BeginLoad ==
    /\ lpc = "idle"
    /\ \E f \in FileSystems : fs' = f
    /\ lpc' = "check"
    /\ checked' = {}
    /\ ps' = NoReader
    /\ got' = NoGot
    /\ UNCHANGED <<msVars, csVars, selVars, scVars, ccVars>>

\* CheckExists, but only cameras.bin is tested before the readers run
CheckExistsCamerasOnly ==
    /\ lpc = "check"
    /\ IF fs.cameras.exists
       THEN /\ checked' = checked \cup {"cameras"}
            /\ lpc' = "cameras"
            /\ UNCHANGED last
       ELSE /\ lpc' = "idle"
            /\ last' = Err("load_reconstruction", <<>>, "FileNotFoundError", "cameras")
            /\ UNCHANGED checked
    /\ UNCHANGED <<cameras, images, points3D, scale_factor, measurements, calls,
                   fs, ps, got, csVars, selVars, scVars, ccVars>>

\* if not <file>_path.exists(): raise FileNotFoundError, for the three
\* files in turn
CheckExists ==
    /\ lpc = "check"
    /\ LET f == CheckOrder[Cardinality(checked) + 1]
       IN  IF fs[f].exists
           THEN /\ checked' = checked \cup {f}
                /\ lpc' = IF Cardinality(checked) = 2 THEN "cameras" ELSE "check"
                /\ UNCHANGED last
           ELSE /\ lpc' = "idle"
                /\ last' = Err("load_reconstruction", <<>>, "FileNotFoundError", f)
                /\ UNCHANGED checked
    /\ UNCHANGED <<cameras, images, points3D, scale_factor, measurements, calls,
                   fs, ps, got, csVars, selVars, scVars, ccVars>>

\* COLMAPBinaryParser.read_<file>(str(<file>_path)): the file is opened
CallReader ==
    /\ lpc \in FileNames
    /\ ps.status = "none"
    /\ ps' = IF fs[lpc].exists THEN OpenReader(ReaderOf(lpc), fs[lpc].bytes)
             ELSE Raise(NoReader, "FileNotFoundError")
    /\ UNCHANGED <<msVars, fs, lpc, checked, got, csVars, selVars, scVars, ccVars>>

\* one f.read of the reader
ReadStep ==
    /\ ps.status = "running"
    /\ ps' = ReaderStep(ps)
    /\ UNCHANGED <<msVars, fs, lpc, checked, got, csVars, selVars, scVars, ccVars>>

\* ReaderReturns, but each dict is stored in the session as soon as its
\* reader returns
ReaderReturnsEager ==
    /\ ps.status = "returned"
    /\ got' = [got EXCEPT ![lpc] = ps.out]
    /\ lpc' = CASE lpc = "cameras" -> "images"
                [] lpc = "images" -> "points3D"
                [] lpc = "points3D" -> "assign"
    /\ ps' = NoReader
    /\ cameras' = IF lpc = "cameras" THEN Dict(ps.out) ELSE cameras
    /\ images' = IF lpc = "images" THEN Dict(ps.out) ELSE images
    /\ points3D' = IF lpc = "points3D" THEN Dict(ps.out) ELSE points3D
    /\ UNCHANGED <<scale_factor, measurements, last, calls, fs, checked, csVars, selVars, scVars, ccVars>>

\* return <dict>: the local of load_reconstruction is bound
ReaderReturns ==
    /\ ps.status = "returned"
    /\ got' = [got EXCEPT ![lpc] = ps.out]
    /\ lpc' = CASE lpc = "cameras" -> "images"
                [] lpc = "images" -> "points3D"
                [] lpc = "points3D" -> "assign"
    /\ ps' = NoReader
    /\ UNCHANGED <<msVars, fs, checked, csVars, selVars, scVars, ccVars>>

\* the reader's exception leaves both load_reconstruction frames
ReaderRaises ==
    /\ ps.status = "raised"
    /\ lpc' = "idle"
    /\ last' = Err("load_reconstruction", <<>>, ps.err, lpc)
    /\ ps' = NoReader
    /\ UNCHANGED <<cameras, images, points3D, scale_factor, measurements, calls,
                   fs, checked, got, csVars, selVars, scVars, ccVars>>

\* self.cameras, self.images, self.points3D = <returned tuple>
AssignLoaded ==
    /\ lpc = "assign"
    /\ cameras' = Dict(got.cameras)
    /\ images' = Dict(got.images)
    /\ points3D' = Dict(got.points3D)
    /\ calls' = <<>>
    /\ last' = Ok("load_reconstruction", <<>>, <<>>)
    /\ lpc' = "idle"
    /\ UNCHANGED <<scale_factor, measurements, fs, checked, ps, got, csVars, selVars, scVars, ccVars>>

-----------------------------------------------------------------------------
(* COLMAPBinaryParser.load_reconstruction as one call: the outcome of the  *)
(* steps above on a directory on which every reader ends.                  *)

Reads(f, name) ==
    IF f[name].exists THEN RunReader(OpenReader(ReaderOf(name), f[name].bytes))
    ELSE Raise(NoReader, "FileNotFoundError")

load_reconstruction(f) ==
    IF ~f.cameras.exists THEN Err("load_reconstruction", <<>>, "FileNotFoundError", "cameras")
    ELSE IF ~f.images.exists THEN Err("load_reconstruction", <<>>, "FileNotFoundError", "images")
    ELSE IF ~f.points3D.exists THEN Err("load_reconstruction", <<>>, "FileNotFoundError", "points3D")
    ELSE IF Reads(f, "cameras").status = "raised"
         THEN Err("load_reconstruction", <<>>, Reads(f, "cameras").err, "cameras")
    ELSE IF Reads(f, "images").status = "raised"
         THEN Err("load_reconstruction", <<>>, Reads(f, "images").err, "images")
    ELSE IF Reads(f, "points3D").status = "raised"
         THEN Err("load_reconstruction", <<>>, Reads(f, "points3D").err, "points3D")
    ELSE Ok("load_reconstruction", <<>>,
            [cameras |-> Reads(f, "cameras").out, images |-> Reads(f, "images").out,
             points3D |-> Reads(f, "points3D").out])

-----------------------------------------------------------------------------
(* MeasurementSystem                                                       *)

\* The directories the session is loaded from: complete, one file absent,
\* one file cut inside its last record.
SessionFiles ==
    {GoodFiles,
     [GoodFiles EXCEPT !.images = Absent],
     [GoodFiles EXCEPT !.points3D =
         File(SubSeq(Points3DBin, 1, Len(Points3DBin) - 1))]}

\* Arguments of the calls; 9 is a point id of no file.
CalibrationArgs ==
    {<<2, 3, <<7, 2>>>>, <<2, 3, R(175)>>, <<2, 3, R(0)>>, <<1, 1, <<7, 2>>>>,
     <<9, 1, <<7, 2>>>>}
ThicknessPairs == {<<2, 1>>, <<1, 3>>, <<1, 9>>}
MeasurementArgs == {<<2, 1, <<>>>>, <<1, 3, <<"a", "\n", "b">>>>, <<9, 3, <<"w">>>>}
NearestArgs ==
    {<<<<R(9), R(12), R(20)>>, R(25)>>, <<<<R(9), R(12), R(20)>>, R(26)>>,
     <<<<R(0), R(0), R(0)>>, R(50)>>}

Has(d, key) == key \in Keys(d.items)
Xyz(d, key) == Get(d.items, key).xyz

\* MeasurementSystem.load_reconstruction, called once on a new session as
\* the endpoints of main.py do (again after a failed load)
Load ==
    /\ points3D.isNone
    /\ \E f \in SessionFiles :
          LET r == load_reconstruction(f)
          IN  /\ last' = [r EXCEPT !.val = <<>>]
              /\ IF r.ok
                 THEN /\ cameras' = Dict(r.val.cameras)
                      /\ images' = Dict(r.val.images)
                      /\ points3D' = Dict(r.val.points3D)
                 ELSE UNCHANGED <<cameras, images, points3D>>
    /\ UNCHANGED <<scale_factor, measurements, calls, ldVars, csVars, selVars, scVars, ccVars>>

\* COLMAPBinaryParser.apply_scale: new dicts, xyz and tvec multiplied
\* ScalePoint, but the scaled coordinates are cut to whole units
ScalePointWhole(point, f) ==
    [point EXCEPT !.xyz = [c \in 1..3 |-> R(RMul(point.xyz[c], f)[1]
                                             \div RMul(point.xyz[c], f)[2])]]

ScalePoint(point, f) == [point EXCEPT !.xyz = VScale(point.xyz, f)]
ScaleImage(image, f) == [image EXCEPT !.tvec = VScale(image.tvec, f)]

apply_scale(pts, cams, imgs, f) ==
    [points3D |-> [i \in 1..Len(pts) |-> [k |-> pts[i].k, v |-> ScalePoint(pts[i].v, f)]],
     cameras |-> cams,
     images |-> [i \in 1..Len(imgs) |-> [k |-> imgs[i].k, v |-> ScaleImage(imgs[i].v, f)]]]

\* NewScale, but the factor is accumulated onto the current scale_factor
NewScaleCumulative(known_distance, reconstruction_distance) ==
    RMul(scale_factor, RDiv(known_distance, reconstruction_distance))

\* the scale factor calibrate_scale computes
NewScale(known_distance, reconstruction_distance) ==
    RDiv(known_distance, reconstruction_distance)

\* calibrate_scale, but scale_factor is assigned before the distance is
\* tested against 0
calibrate_scale_early(p1, p2, k) ==
    LET a == <<p1, p2, k>>
    IN  IF points3D.isNone
        THEN /\ last' = Err("calibrate_scale", a, "TypeError", <<>>)
             /\ UNCHANGED <<cameras, images, points3D, scale_factor, calls>>
        ELSE IF ~Has(points3D, p1) \/ ~Has(points3D, p2)
        THEN /\ last' = Err("calibrate_scale", a, "ValueError", "not found")
             /\ UNCHANGED <<cameras, images, points3D, scale_factor, calls>>
        ELSE LET rd == calculate_distance(Xyz(points3D, p1), Xyz(points3D, p2))
             IN  IF rd = R(0)
                 THEN /\ last' = Err("calibrate_scale", a, "ValueError", "identical")
                      /\ scale_factor' = k
                      /\ UNCHANGED <<cameras, images, points3D, calls>>
                 ELSE LET sf == NewScale(k, rd)
                          sc == apply_scale(points3D.items, cameras, images.items, sf)
                      IN  /\ scale_factor' = sf
                          /\ points3D' = Dict(sc.points3D)
                          /\ cameras' = sc.cameras
                          /\ images' = Dict(sc.images)
                          /\ calls' = Append(calls, a)
                          /\ last' = Ok("calibrate_scale", a,
                                        [scale_factor |-> sf, known_distance |-> k,
                                         reconstruction_distance |-> rd])

\* MeasurementSystem.calibrate_scale(point1_id, point2_id, known_distance)
calibrate_scale(p1, p2, k) ==
    LET a == <<p1, p2, k>>
    IN  IF points3D.isNone
        THEN /\ last' = Err("calibrate_scale", a, "TypeError", <<>>)
             /\ UNCHANGED <<cameras, images, points3D, scale_factor, calls>>
        ELSE IF ~Has(points3D, p1) \/ ~Has(points3D, p2)
        THEN /\ last' = Err("calibrate_scale", a, "ValueError", "not found")
             /\ UNCHANGED <<cameras, images, points3D, scale_factor, calls>>
        ELSE LET rd == calculate_distance(Xyz(points3D, p1), Xyz(points3D, p2))
             IN  IF rd = R(0)
                 THEN /\ last' = Err("calibrate_scale", a, "ValueError", "identical")
                      /\ UNCHANGED <<cameras, images, points3D, scale_factor, calls>>
                 ELSE LET sf == NewScale(k, rd)
                          sc == apply_scale(points3D.items, cameras, images.items, sf)
                      IN  /\ scale_factor' = sf
                          /\ points3D' = Dict(sc.points3D)
                          /\ cameras' = sc.cameras
                          /\ images' = Dict(sc.images)
                          /\ calls' = Append(calls, a)
                          /\ last' = Ok("calibrate_scale", a,
                                        [scale_factor |-> sf, known_distance |-> k,
                                         reconstruction_distance |-> rd])

\* the value calculate_thickness returns for two points of the model
Thickness(p1, p2) ==
    RMul(calculate_distance(Xyz(points3D, p1), Xyz(points3D, p2)), scale_factor)

\* MeasurementSystem.calculate_thickness(point1_id, point2_id)
calculate_thickness(p1, p2) ==
    IF points3D.isNone THEN Err("calculate_thickness", <<p1, p2>>, "TypeError", <<>>)
    ELSE IF ~Has(points3D, p1) \/ ~Has(points3D, p2)
    THEN Err("calculate_thickness", <<p1, p2>>, "ValueError", "not found")
    ELSE Ok("calculate_thickness", <<p1, p2>>, Thickness(p1, p2))

\* scale_factor is the float 1.0 of __init__ until calibrate_scale assigns
\* the quotient by the numpy.float64 that np.linalg.norm returns
IsNumpy == calls # <<>>

\* x != y: a bool, or a numpy.bool_ when x is a numpy.float64
NotEqual(x, y) == [type |-> IF IsNumpy THEN "numpy.bool_" ELSE "bool", value |-> x # y]

\* Measurement, but every record gets the id 0
MeasurementFixedId(p1, p2, label) ==
    LET distance == calculate_distance(Xyz(points3D, p1), Xyz(points3D, p2))
    IN  [id |-> 0,
         point1_id |-> p1,
         point2_id |-> p2,
         point1_xyz |-> Xyz(points3D, p1),
         point2_xyz |-> Xyz(points3D, p2),
         distance_meters |-> distance,
         distance_cm |-> RMul(distance, R(100)),
         distance_mm |-> RMul(distance, R(1000)),
         label |-> IF label # <<>> THEN label
                   ELSE <<"Measurement ", ToString(Len(measurements) + 1)>>,
         scaled |-> NotEqual(scale_factor, R(1))]

\* the record add_measurement builds; a string is the sequence of its pieces
Measurement(p1, p2, label) ==
    LET distance == calculate_distance(Xyz(points3D, p1), Xyz(points3D, p2))
    IN  [id |-> Len(measurements),
         point1_id |-> p1,
         point2_id |-> p2,
         point1_xyz |-> Xyz(points3D, p1),
         point2_xyz |-> Xyz(points3D, p2),
         distance_meters |-> distance,
         distance_cm |-> RMul(distance, R(100)),
         distance_mm |-> RMul(distance, R(1000)),
         label |-> IF label # <<>> THEN label
                   ELSE <<"Measurement ", ToString(Len(measurements) + 1)>>,
         scaled |-> NotEqual(scale_factor, R(1))]

\* MeasurementSystem.add_measurement(point1_id, point2_id, label)
add_measurement(p1, p2, label) ==
    LET a == <<p1, p2, label>>
    IN  IF points3D.isNone
        THEN /\ last' = Err("add_measurement", a, "TypeError", <<>>)
             /\ UNCHANGED measurements
        ELSE IF ~Has(points3D, p1) \/ ~Has(points3D, p2)
        THEN /\ last' = Err("add_measurement", a, "ValueError", "not found")
             /\ UNCHANGED measurements
        ELSE /\ measurements' = Append(measurements, Measurement(p1, p2, label))
             /\ last' = Ok("add_measurement", a, Measurement(p1, p2, label))

\* float('inf'): every real is below it
Inf == <<1, 0>>

\* None as nearest_id (ids are unsigned)
NoneId == -1

\* the for loop of find_nearest_point from item i on, with min_dist and
\* nearest_id as the locals
RECURSIVE NearestFrom(_, _, _, _, _, _)

\* NearestVisit with dist <= max_distance
NearestVisitInclusive(pts, i, target, max_distance, min_dist, nearest_id, dist) ==
    IF RLt(dist, min_dist) /\ ~RLt(max_distance, dist)
    THEN NearestFrom(pts, i + 1, target, max_distance, dist, pts[i].k)
    ELSE NearestFrom(pts, i + 1, target, max_distance, min_dist, nearest_id)

\* NearestVisit with dist <= min_dist: the last of the nearest points wins
NearestVisitLast(pts, i, target, max_distance, min_dist, nearest_id, dist) ==
    IF ~RLt(min_dist, dist) /\ RLt(dist, max_distance)
    THEN NearestFrom(pts, i + 1, target, max_distance, dist, pts[i].k)
    ELSE NearestFrom(pts, i + 1, target, max_distance, min_dist, nearest_id)

\* one iteration of the loop of find_nearest_point
NearestVisit(pts, i, target, max_distance, min_dist, nearest_id, dist) ==
    IF RLt(dist, min_dist) /\ RLt(dist, max_distance)
    THEN NearestFrom(pts, i + 1, target, max_distance, dist, pts[i].k)
    ELSE NearestFrom(pts, i + 1, target, max_distance, min_dist, nearest_id)

NearestFrom(pts, i, target, max_distance, min_dist, nearest_id) ==
    IF i > Len(pts) THEN [min_dist |-> min_dist, nearest_id |-> nearest_id]
    ELSE NearestVisit(pts, i, target, max_distance, min_dist, nearest_id,
                      Norm(VSub(pts[i].v.xyz, target)))

\* MeasurementSystem.find_nearest_point(target_position, max_distance)
find_nearest_point(target, max_distance) ==
    IF points3D.isNone \/ points3D.items = <<>>
    THEN Err("find_nearest_point", <<target, max_distance>>, "ValueError", "not loaded")
    ELSE LET r == NearestFrom(points3D.items, 1, target, max_distance, Inf, NoneId)
         IN  IF r.nearest_id = NoneId
             THEN Err("find_nearest_point", <<target, max_distance>>, "ValueError", "no point")
             ELSE Ok("find_nearest_point", <<target, max_distance>>, r.nearest_id)


-----------------------------------------------------------------------------
(* The queries of a session.                                               *)

None == <<"None">>

\* MeasurementSystem.get_point_info(point_id)
get_point_info(point_id) ==
    IF points3D.isNone THEN Err("get_point_info", <<point_id>>, "TypeError", <<>>)
    ELSE IF ~Has(points3D, point_id)
    THEN Err("get_point_info", <<point_id>>, "ValueError", "not found")
    ELSE Ok("get_point_info", <<point_id>>,
            [position |-> VScale(Xyz(points3D, point_id), scale_factor),
             normal |-> None,
             rgb |-> Get(points3D.items, point_id).rgb,
             error |-> Get(points3D.items, point_id).error])

Dot(a, b) == RAdd(RAdd(RMul(a[1], b[1]), RMul(a[2], b[2])), RMul(a[3], b[3]))

\* np.clip(x, -1.0, 1.0)
Clip(x) == IF RLt(x, R(-1)) THEN R(-1) ELSE IF RLt(R(1), x) THEN R(1) ELSE x

\* np.degrees(np.arccos(np.clip(dot / norms, -1, 1))): the angle is given by
\* its cosine; 0 / 0 is nan and stays nan
NaN == [nan |-> TRUE, arccos_of |-> R(0)]
AngleOf(dot, norms) ==
    IF norms = R(0) THEN NaN ELSE [nan |-> FALSE, arccos_of |-> Clip(RDiv(dot, norms))]

\* Angle, but the dot product is divided by the squared norm of v1
AngleByFirstNorm(p1, p2, p3) ==
    AngleOf(Dot(VSub(p1, p2), VSub(p3, p2)),
            RMul(Norm(VSub(p1, p2)), Norm(VSub(p1, p2))))

Angle(p1, p2, p3) ==
    AngleOf(Dot(VSub(p1, p2), VSub(p3, p2)),
            RMul(Norm(VSub(p1, p2)), Norm(VSub(p3, p2))))

\* MeasurementSystem.calculate_angle(point1_id, point2_id, point3_id)
calculate_angle(p1, p2, p3) ==
    IF points3D.isNone THEN Err("calculate_angle", <<p1, p2, p3>>, "TypeError", <<>>)
    ELSE IF ~Has(points3D, p1) \/ ~Has(points3D, p2) \/ ~Has(points3D, p3)
    THEN Err("calculate_angle", <<p1, p2, p3>>, "ValueError", "not found")
    ELSE Ok("calculate_angle", <<p1, p2, p3>>,
            Angle(Xyz(points3D, p1), Xyz(points3D, p2), Xyz(points3D, p3)))

RECURSIVE RSum(_)
RSum(xs) == IF xs = <<>> THEN R(0) ELSE RAdd(Head(xs), RSum(Tail(xs)))

\* np.mean
Mean(xs) == RDiv(RSum(xs), R(Len(xs)))

\* np.mean(points, axis=0)
Centroid(points) ==
    <<Mean([i \in 1..Len(points) |-> points[i][1]]),
      Mean([i \in 1..Len(points) |-> points[i][2]]),
      Mean([i \in 1..Len(points) |-> points[i][3]])>>

\* (d - radius) / radius, squared
RelSquare(d, radius) ==
    RMul(RSub(RDiv(d, radius), R(1)), RSub(RDiv(d, radius), R(1)))

\* np.std(distances) / radius < 0.1, both sides squared: the mean of the
\* squares of (d - radius) / radius is below 0.01; 0 / 0 is nan, which is
\* below nothing
GoodFit(distances, radius) ==
    /\ RPos(radius)
    /\ RLt(Mean([i \in 1..Len(distances) |-> RelSquare(distances[i], radius)]),
           <<1, 100>>)

\* the dict calculate_radius returns
RadiusFit(center_estimate, distances, radius) ==
    [radius_meters |-> radius,
     center |-> center_estimate,
     fit_quality |-> IF GoodFit(distances, radius) THEN "good" ELSE "fair"]

\* radius_estimate = np.mean(distances)
RadiusOf(center_estimate, distances) ==
    RadiusFit(center_estimate, distances, Mean(distances))

\* distances = np.linalg.norm(points - center_estimate, axis=1)
RadiusAbout(points, center_estimate) ==
    RadiusOf(center_estimate,
             [i \in 1..Len(points) |-> Norm(VSub(points[i], center_estimate))])

\* the fit of calculate_radius to the points multiplied by scale_factor
Radius(points) == RadiusAbout(points, Centroid(points))

\* calculate_radius, but any number of ids is accepted
calculate_radius_any_count(point_ids) ==
    IF points3D.isNone
    THEN Err("calculate_radius", point_ids, "TypeError", <<>>)
    ELSE IF \E i \in 1..Len(point_ids) : ~Has(points3D, point_ids[i])
    THEN Err("calculate_radius", point_ids, "ValueError", "not found")
    ELSE Ok("calculate_radius", point_ids,
            Radius([i \in 1..Len(point_ids) |->
                       VScale(Xyz(points3D, point_ids[i]), scale_factor)]))

\* MeasurementSystem.calculate_radius(point_ids)
calculate_radius(point_ids) ==
    IF Len(point_ids) < 3
    THEN Err("calculate_radius", point_ids, "ValueError", "need 3")
    ELSE IF points3D.isNone
    THEN Err("calculate_radius", point_ids, "TypeError", <<>>)
    ELSE IF \E i \in 1..Len(point_ids) : ~Has(points3D, point_ids[i])
    THEN Err("calculate_radius", point_ids, "ValueError", "not found")
    ELSE Ok("calculate_radius", point_ids,
            Radius([i \in 1..Len(point_ids) |->
                       VScale(Xyz(points3D, point_ids[i]), scale_factor)]))

-----------------------------------------------------------------------------
(* MeasurementSystem.export_measurements.  A text is the sequence of its   *)
(* pieces, "\n" and "," being pieces of their own.                         *)

RECURSIVE Pow10(_)
Pow10(d) == IF d = 0 THEN 1 ELSE 10 * Pow10(d - 1)

\* n / d rounded to the nearest integer, a tie to the even one
RoundHalfEven(n, d) ==
    IF 2 * (n % d) < d THEN n \div d
    ELSE IF 2 * (n % d) > d THEN (n \div d) + 1
    ELSE IF (n \div d) % 2 = 0 THEN n \div d
    ELSE (n \div d) + 1

\* x * 10^decimals rounded, for x >= 0
Rounded(x, decimals) ==
    (x[1] \div x[2]) * Pow10(decimals)
    + RoundHalfEven((x[1] % x[2]) * Pow10(decimals), x[2])

RECURSIVE Digits(_, _)
Digits(n, k) ==
    IF k = 0 THEN <<>> ELSE Append(Digits(n \div 10, k - 1), ToString(n % 10))

\* f"{x:.<decimals>f}"
Fixed(x, decimals) ==
    <<ToString(Rounded(x, decimals) \div Pow10(decimals)), ".">>
    \o Digits(Rounded(x, decimals) % Pow10(decimals), decimals)

CsvHeader ==
    <<"id", ",", "label", ",", "point1_id", ",", "point2_id", ",", "distance_m", ",",
      "distance_cm", ",", "distance_mm", ",", "scaled">>

\* one f-string of the csv branch
CsvRow(m) ==
    <<ToString(m.id), ",">> \o m.label
    \o <<",", ToString(m.point1_id), ",", ToString(m.point2_id), ",">>
    \o Fixed(m.distance_meters, 6) \o <<",">>
    \o Fixed(m.distance_cm, 2) \o <<",">>
    \o Fixed(m.distance_mm, 1) \o <<",">>
    \o <<IF m.scaled.value THEN "True" ELSE "False">>

\* '\n'.join(lines)
RECURSIVE Join(_)
Join(lines) ==
    IF lines = <<>> THEN <<>>
    ELSE IF Len(lines) = 1 THEN lines[1]
    ELSE lines[1] \o <<"\n">> \o Join(Tail(lines))

\* MeasurementSystem.export_measurements(format).  json.dumps raises
\* TypeError on a numpy.bool_.
export_measurements(format) ==
    IF format = "json"
    THEN IF \E i \in 1..Len(measurements) : measurements[i].scaled.type = "numpy.bool_"
         THEN Err("export_measurements", <<format>>, "TypeError", <<>>)
         ELSE Ok("export_measurements", <<format>>,
                 <<[scale_factor |-> scale_factor, measurements |-> measurements]>>)
    ELSE IF format = "csv"
    THEN Ok("export_measurements", <<format>>,
            Join(<<CsvHeader>> \o [i \in 1..Len(measurements) |-> CsvRow(measurements[i])]))
    ELSE Err("export_measurements", <<format>>, "ValueError", "unsupported")

\* xyz_array[:, c] of get_point_cloud_array(self.points3D)
Column(c) == [i \in 1..Len(points3D.items) |-> points3D.items[i].v.xyz[c]]

RECURSIVE MinOf(_)
MinOf(xs) ==
    IF Len(xs) = 1 THEN xs[1]
    ELSE IF RLt(xs[1], MinOf(Tail(xs))) THEN xs[1] ELSE MinOf(Tail(xs))

RECURSIVE MaxOf(_)
MaxOf(xs) ==
    IF Len(xs) = 1 THEN xs[1]
    ELSE IF RLt(MaxOf(Tail(xs)), xs[1]) THEN xs[1] ELSE MaxOf(Tail(xs))

\* len(d) if d else 0
LenOrZero(d) == IF d.isNone THEN 0 ELSE Len(d.items)

\* MeasurementSystem.get_reconstruction_stats()
get_reconstruction_stats ==
    IF LenOrZero(points3D) = 0
    THEN Ok("get_reconstruction_stats", <<>>, <<>>)
    ELSE Ok("get_reconstruction_stats", <<>>,
            <<[num_points |-> Len(points3D.items),
               num_cameras |-> LenOrZero(cameras),
               num_images |-> LenOrZero(images),
               num_measurements |-> Len(measurements),
               scale_factor |-> scale_factor,
               is_scaled |-> NotEqual(scale_factor, R(1)),
               bounds |-> [min_x |-> MinOf(Column(1)), max_x |-> MaxOf(Column(1)),
                           min_y |-> MinOf(Column(2)), max_y |-> MaxOf(Column(2)),
                           min_z |-> MinOf(Column(3)), max_z |-> MaxOf(Column(3))],
               centroid |-> [x |-> Mean(Column(1)), y |-> Mean(Column(2)),
                             z |-> Mean(Column(3))]]>>)

-----------------------------------------------------------------------------
(* The calls on a session.                                                 *)

MaxCalibrations == 2
MaxMeasurements == 2

CalibrateScale ==
    /\ Len(calls) < MaxCalibrations
    /\ \E a \in CalibrationArgs : calibrate_scale(a[1], a[2], a[3])
    /\ UNCHANGED <<measurements, ldVars, csVars, selVars, scVars, ccVars>>

CalculateThickness ==
    /\ \E pq \in ThicknessPairs : last' = calculate_thickness(pq[1], pq[2])
    /\ UNCHANGED <<cameras, images, points3D, scale_factor, measurements, calls,
                   ldVars, csVars, selVars, scVars, ccVars>>

AddMeasurement ==
    /\ Len(measurements) < MaxMeasurements
    /\ \E a \in MeasurementArgs : add_measurement(a[1], a[2], a[3])
    /\ UNCHANGED <<cameras, images, points3D, scale_factor, calls, ldVars, csVars, selVars, scVars, ccVars>>

FindNearestPoint ==
    /\ \E a \in NearestArgs : last' = find_nearest_point(a[1], a[2])
    /\ UNCHANGED <<cameras, images, points3D, scale_factor, measurements, calls,
                   ldVars, csVars, selVars, scVars, ccVars>>

PointIds == {1, 9}
AngleArgs == {<<2, 1, 3>>, <<1, 1, 3>>, <<1, 9, 3>>}
RadiusArgs == {<<2, 1, 3>>, <<2, 1>>, <<2, 9, 3>>}
Formats == {"json", "csv", "xml"}

\* GetPointInfo, but the position is stored back as the xyz of the point
GetPointInfoStoring ==
    /\ \E point_id \in PointIds :
          /\ last' = get_point_info(point_id)
          /\ points3D' =
                IF get_point_info(point_id).ok
                THEN Dict(DictSet(points3D.items, point_id,
                                  [Get(points3D.items, point_id) EXCEPT
                                      !.xyz = get_point_info(point_id).val.position]))
                ELSE points3D
    /\ UNCHANGED <<cameras, images, scale_factor, measurements, calls,
                   ldVars, csVars, selVars, scVars, ccVars>>

GetPointInfo ==
    /\ \E point_id \in PointIds : last' = get_point_info(point_id)
    /\ UNCHANGED <<cameras, images, points3D, scale_factor, measurements, calls,
                   ldVars, csVars, selVars, scVars, ccVars>>

CalculateAngle ==
    /\ \E a \in AngleArgs : last' = calculate_angle(a[1], a[2], a[3])
    /\ UNCHANGED <<cameras, images, points3D, scale_factor, measurements, calls,
                   ldVars, csVars, selVars, scVars, ccVars>>

CalculateRadius ==
    /\ \E point_ids \in RadiusArgs : last' = calculate_radius(point_ids)
    /\ UNCHANGED <<cameras, images, points3D, scale_factor, measurements, calls,
                   ldVars, csVars, selVars, scVars, ccVars>>

ExportMeasurements ==
    /\ \E format \in Formats : last' = export_measurements(format)
    /\ UNCHANGED <<cameras, images, points3D, scale_factor, measurements, calls,
                   ldVars, csVars, selVars, scVars, ccVars>>

GetReconstructionStats ==
    /\ last' = get_reconstruction_stats
    /\ UNCHANGED <<cameras, images, points3D, scale_factor, measurements, calls,
                   ldVars, csVars, selVars, scVars, ccVars>>

-----------------------------------------------------------------------------
(* CalibrationSystem.  The calibration file holds nothing ("absent"), a    *)
(* complete JSON document ("json") or the beginning of one ("partial").    *)

NoFile == [state |-> "absent", data |-> <<>>]

\* CalibrationSystem.__init__ before the file is looked at
NoCalibration ==
    [scale_factor |-> R(1), calibration_method |-> "uncalibrated",
     reference_distance |-> <<"None">>, unit |-> "reconstruction_units"]

\* json.dump of a field: None is written as null, a float as its repr (the
\* shortest text that reads back as the same float), a str as a string
JsonNull == [json |-> "null", of |-> <<>>]
JsonNumber(x) == [json |-> "number", of |-> x]
JsonString(s) == [json |-> "string", of |-> s]
JsonFloat(x) == IF x = <<"None">> THEN JsonNull ELSE JsonNumber(x)

\* json.load of a field
FromJson(j) == IF j.json = "null" THEN <<"None">> ELSE j.of

\* data.get(key, default)
DataGet(data, key, default) ==
    IF key \in DOMAIN data THEN FromJson(data[key]) ELSE default

\* _load_calibration that leaves reference_distance as it is
load_calibration_keeps_reference(c, file) ==
    IF file.state = "json"
    THEN [scale_factor |-> DataGet(file.data, "scale_factor", R(1)),
          calibration_method |-> DataGet(file.data, "method", "uncalibrated"),
          reference_distance |-> c.reference_distance,
          unit |-> DataGet(file.data, "unit", "reconstruction_units")]
    ELSE c

\* CalibrationSystem._load_calibration: a document that does not parse is
\* logged and the fields keep their values
load_calibration(c, file) ==
    IF file.state = "json"
    THEN [scale_factor |-> DataGet(file.data, "scale_factor", R(1)),
          calibration_method |-> DataGet(file.data, "method", "uncalibrated"),
          reference_distance |-> DataGet(file.data, "reference_distance", <<"None">>),
          unit |-> DataGet(file.data, "unit", "reconstruction_units")]
    ELSE c

\* the document _save_calibration dumps
Document(c) ==
    [scale_factor |-> JsonFloat(c.scale_factor),
     method |-> JsonString(c.calibration_method),
     reference_distance |-> JsonFloat(c.reference_distance),
     unit |-> JsonString(c.unit),
     scan_id |-> JsonString("scan")]

\* CalibrationSystem._save_calibration: every exception is logged and
\* swallowed.  io is what the file system does: "ok"; "open" fails (mkdir
\* or open raises, the file is untouched); "write" fails (open has
\* truncated the file and json.dump stops part-way).
IoOutcomes == {"ok", "open", "write"}

save_calibration(c, file, io) ==
    CASE io = "ok" -> [state |-> "json", data |-> Document(c)]
      [] io = "open" -> file
      [] io = "write" -> [state |-> "partial", data |-> <<>>]

\* reconstruction_distance < 1e-6
MinDistance == <<1, 1000000>>

\* TooClose with reconstruction_distance <= 1e-6
TooCloseInclusive(reconstruction_distance) == ~RLt(MinDistance, reconstruction_distance)

TooClose(reconstruction_distance) == RLt(reconstruction_distance, MinDistance)

\* Arguments of the calls
Origin == <<R(0), R(0), R(0)>>
PointPairs ==
    {<<Origin, <<R(63), R(84), R(140)>>>>,           \* 175 apart
     <<Origin, Origin>>,                             \* identical
     <<Origin, <<R(0), R(0), <<1, 2000000>>>>>>,     \* 5e-7 apart
     <<Origin, <<R(0), R(0), <<1, 1000000>>>>>>}     \* 1e-6 apart
ReferenceDistances == {<<7, 2>>, R(0), R(-1)}
ManualScales == {<<1, 100>>, R(0)}
Units == {"meters", "feet"}
CameraMetadata ==
    {<<R(4), R(6), R(4000)>>, <<R(0), R(6), R(4000)>>, <<R(4), R(6), R(0)>>}

\* CalibrationSystem(scan_id, calibration_file) on the file as it is
Construct ==
    /\ cs' = load_calibration(NoCalibration, disk)
    /\ cslast' = Ok("__init__", <<>>, <<>>)
    /\ UNCHANGED <<msVars, ldVars, disk, saved, obj, selVars, scVars, ccVars>>

\* CalibrationSystem.calibrate_from_known_distance
CalibrateFromKnownDistance ==
    /\ \E pq \in PointPairs, k \in ReferenceDistances :
          LET rd == Norm(VSub(pq[2], pq[1]))
              c == [scale_factor |-> RDiv(k, rd),
                    calibration_method |-> "known_distance",
                    reference_distance |-> k,
                    unit |-> "meters"]
          IN  IF TooClose(rd)
              THEN /\ cslast' = Err("calibrate_from_known_distance", <<pq[1], pq[2], k>>,
                                    "ValueError", "too close")
                   /\ UNCHANGED <<cs, disk, saved>>
              ELSE /\ cs' = c
                   /\ \E io \in IoOutcomes :
                         /\ disk' = save_calibration(c, disk, io)
                         /\ saved' = io
                   /\ cslast' = Ok("calibrate_from_known_distance", <<pq[1], pq[2], k>>,
                                   c.scale_factor)
    /\ UNCHANGED <<msVars, ldVars, obj, selVars, scVars, ccVars>>

\* CalibrationSystem.calibrate_from_camera_metadata: reference_distance
\* is not assigned
CalibrateFromCameraMetadata ==
    /\ \E m \in CameraMetadata :
          IF m[3] = R(0) \/ m[1] = R(0)
          THEN /\ cslast' = Err("calibrate_from_camera_metadata", m,
                                "ZeroDivisionError", <<>>)
               /\ UNCHANGED <<cs, disk, saved>>
          ELSE LET c == [cs EXCEPT !.scale_factor = RDiv(RDiv(m[2], m[3]), m[1]),
                                   !.calibration_method = "camera_metadata",
                                   !.unit = "meters (approximate)"]
               IN  /\ cs' = c
                   /\ \E io \in IoOutcomes :
                         /\ disk' = save_calibration(c, disk, io)
                         /\ saved' = io
                   /\ cslast' = Ok("calibrate_from_camera_metadata", m, c.scale_factor)
    /\ UNCHANGED <<msVars, ldVars, obj, selVars, scVars, ccVars>>

\* CalibrationSystem.set_manual_scale
SetManualScale ==
    /\ \E f \in ManualScales, u \in Units, io \in IoOutcomes :
          LET c == [cs EXCEPT !.scale_factor = f,
                              !.calibration_method = "manual",
                              !.unit = u]
          IN  /\ cs' = c
              /\ disk' = save_calibration(c, disk, io)
              /\ saved' = io
              /\ cslast' = Ok("set_manual_scale", <<f, u>>, <<>>)
    /\ UNCHANGED <<msVars, ldVars, obj, selVars, scVars, ccVars>>

-----------------------------------------------------------------------------
(* COLMAPProcessor._find_best_model.  A directory of sparse_path is named  *)
(* by its digits, <<1, 0>> for "10"; sparse maps the names present to what *)
(* each holds.                                                             *)

\* a points3D.bin of n points, each with a track of t observations
TrackedPoints(n, t) ==
    [i \in 1..n |-> [id |-> i, xyz |-> <<0, 0, 0>>, rgb |-> <<0, 0, 0>>, error |-> 0,
                     track |-> [j \in 1..t |-> <<1, j>>]]]

PointsBin(n, t) ==
    PackFile([i \in 1..n |-> PackPoint(TrackedPoints(n, t)[i])])

\* what a model directory holds: no points3D.bin, or the file written from
\* n points with tracks of length t
NoPointsFile == [exists |-> FALSE, n |-> 0, t |-> 0]
PointsFile(n, t) == [exists |-> TRUE, n |-> n, t |-> t]

CandidateNames == {<<0>>, <<1>>, <<2>>, <<1, 0>>}
CandidateFiles ==
    {NoPointsFile, PointsFile(1, 0), PointsFile(1, 6), PointsFile(2, 0), PointsFile(5, 0)}

\* points3d_file.stat().st_size
StSize(file) == Len(PointsBin(file.n, file.t))

\* Path.__lt__ on two names of the same parent: the order of the strings
RECURSIVE LexLess(_, _)
LexLess(a, b) ==
    IF a = <<>> THEN b # <<>>
    ELSE IF b = <<>> THEN FALSE
    ELSE IF a[1] # b[1] THEN a[1] < b[1]
    ELSE LexLess(Tail(a), Tail(b))

\* sorted(self.sparse_path.glob("[0-9]*"))
RECURSIVE Sorted(_)
Sorted(names) ==
    IF names = {} THEN <<>>
    ELSE LET first == CHOOSE a \in names : \A b \in names \ {a} : LexLess(a, b)
         IN  <<first>> \o Sorted(names \ {first})

NoModel == <<>>
NotCalled == [called |-> FALSE, model |-> NoModel, stats |-> <<>>]

\* the for loop of _find_best_model from the i-th directory on
RECURSIVE BestFrom(_, _, _, _, _)
BestFrom(dirs, sparse_dirs, i, best_model, best_points) ==
    IF i > Len(sparse_dirs)
    THEN [called |-> TRUE, model |-> best_model,
          stats |-> [num_models |-> Len(sparse_dirs), points_3d |-> best_points,
                     model_id |-> best_model]]
    ELSE IF dirs[sparse_dirs[i]].exists
            /\ StSize(dirs[sparse_dirs[i]]) \div 48 > best_points
    THEN BestFrom(dirs, sparse_dirs, i + 1, sparse_dirs[i],
                  StSize(dirs[sparse_dirs[i]]) \div 48)
    ELSE BestFrom(dirs, sparse_dirs, i + 1, best_model, best_points)

\* COLMAPProcessor._find_best_model
find_best_model(dirs) ==
    IF DOMAIN dirs = {} THEN [called |-> TRUE, model |-> NoModel, stats |-> <<>>]
    ELSE BestFrom(dirs, Sorted(DOMAIN dirs), 1, Sorted(DOMAIN dirs)[1], 0)

\* the sparse_path directories the mapper can leave behind
SparsePaths == UNION {[names -> CandidateFiles] : names \in SUBSET CandidateNames}

\* _find_best_model on the sparse_path as the mapper left it
FindBestModel ==
    /\ best' = find_best_model(sparse)
    /\ UNCHANGED <<msVars, ldVars, csVars, sparse, scVars, ccVars>>

-----------------------------------------------------------------------------
(* Specifications                                                          *)

\* MeasurementSystem.__init__
InitSession ==
    /\ cameras = NoneDict
    /\ images = NoneDict
    /\ points3D = NoneDict
    /\ scale_factor = R(1)
    /\ measurements = <<>>
    /\ last = NoCall
    /\ calls = <<>>

InitLoader ==
    /\ fs = [f \in FileNames |-> Absent]
    /\ lpc = "idle"
    /\ checked = {}
    /\ ps = NoReader
    /\ got = NoGot

\* CalibrationSystem.__init__ with no calibration file
InitCalibration ==
    /\ cs = NoCalibration
    /\ disk = NoFile
    /\ cslast = NoCall
    /\ saved = "none"

InitSelection ==
    /\ sparse = <<>>
    /\ best = NotCalled

NoArguments == [points3D |-> <<>>, cameras |-> <<>>, images |-> <<>>, scale_factor |-> R(1)]
NoModelLoaded == [points3D |-> <<>>, cameras |-> <<>>, images |-> <<>>]

InitScaling ==
    /\ start = NoModelLoaded
    /\ arg = NoArguments
    /\ ret = NoModelLoaded
    /\ factors = <<>>

NoSession ==
    [args |-> <<>>, reconstruction_distance |-> R(0), scale_factor |-> R(1),
     points3D |-> NoneDict, cameras |-> NoneDict, images |-> NoneDict]
NoObservation ==
    [at |-> "idle", scale_factor |-> R(1), points3D |-> NoneDict, images |-> NoneDict]

InitConcurrent ==
    /\ cpc = "idle"
    /\ tmp = NoModelLoaded
    /\ pre = NoSession
    /\ obs = NoObservation

Init ==
    /\ InitSession /\ InitLoader /\ InitCalibration /\ InitSelection
    /\ InitScaling /\ InitConcurrent
    /\ obj = "MeasurementSystem"

Next ==
    \/ Load
    \/ CalibrateScale
    \/ CalculateThickness
    \/ AddMeasurement
    \/ FindNearestPoint
    \/ GetPointInfo
    \/ CalculateAngle
    \/ CalculateRadius
    \/ ExportMeasurements
    \/ GetReconstructionStats

\* A MeasurementSystem session
Spec == Init /\ [][Next]_vars

LoadNext ==
    \/ BeginLoad
    \/ CheckExists
    \/ CallReader
    \/ ReadStep
    \/ ReaderReturns
    \/ ReaderRaises
    \/ AssignLoaded

\* MeasurementSystem.load_reconstruction, step by step
LoadSpec == Init /\ [][LoadNext]_vars

\* A call in progress keeps running
LiveLoadSpec == LoadSpec /\ WF_vars(ReadStep)

CalInit ==
    /\ InitSession /\ InitLoader /\ InitCalibration /\ InitSelection
    /\ InitScaling /\ InitConcurrent
    /\ obj = "CalibrationSystem"

CalNext ==
    \/ Construct
    \/ CalibrateFromKnownDistance
    \/ CalibrateFromCameraMetadata
    \/ SetManualScale

\* A CalibrationSystem and its calibration file
CalSpec == CalInit /\ [][CalNext]_vars

\* Calibration of either object: a MeasurementSystem session that is loaded
\* and calibrated, or a CalibrationSystem
BothInit ==
    /\ InitSession /\ InitLoader /\ InitCalibration /\ InitSelection
    /\ InitScaling /\ InitConcurrent
    /\ obj \in {"MeasurementSystem", "CalibrationSystem"}

BothNext ==
    \/ obj = "MeasurementSystem" /\ (Load \/ CalibrateScale)
    \/ obj = "CalibrationSystem" /\ CalNext

BothSpec == BothInit /\ [][BothNext]_vars

SelectInit ==
    /\ InitSession /\ InitLoader /\ InitCalibration
    /\ InitScaling /\ InitConcurrent
    /\ sparse \in SparsePaths
    /\ best = NotCalled
    /\ obj = "COLMAPProcessor"

\* Model selection on every sparse_path
SelectSpec == SelectInit /\ [][FindBestModel]_vars

-----------------------------------------------------------------------------
(* COLMAPBinaryParser.apply_scale as a function of its arguments.  arg is  *)
(* the mappings as passed in, looked at after the call; the mappings that  *)
(* one call returns are passed to the next, as calibrate_scale does.       *)

\* the reconstructions load_reconstruction returns
Models ==
    {load_reconstruction(f).val : f \in {GoodFiles, GoodFilesSorted, DanglingFiles}}

ScaleFactors == {<<1, 50>>, R(50), <<7, 2>>, <<1, 3>>, R(3), R(0), R(-1), R(1)}

MaxScalings == 2

\* ApplyScale, but the xyz and tvec of the mappings passed in are overwritten
ApplyScaleInPlace ==
    /\ Len(factors) < MaxScalings
    /\ \E f \in ScaleFactors :
          /\ ret' = apply_scale(ret.points3D, ret.cameras, ret.images, f)
          /\ arg' = [points3D |-> ret'.points3D, cameras |-> ret.cameras,
                     images |-> ret'.images, scale_factor |-> f]
          /\ factors' = Append(factors, f)
    /\ UNCHANGED <<msVars, ldVars, csVars, selVars, start, ccVars>>

\* scaled_points, scaled_cameras, scaled_images = apply_scale(points3D,
\* cameras, images, scale_factor): the returned mappings are new dicts and
\* nothing is written to the ones passed in
ApplyScale ==
    /\ Len(factors) < MaxScalings
    /\ \E f \in ScaleFactors :
          /\ ret' = apply_scale(ret.points3D, ret.cameras, ret.images, f)
          /\ arg' = [points3D |-> ret.points3D, cameras |-> ret.cameras,
                     images |-> ret.images, scale_factor |-> f]
          /\ factors' = Append(factors, f)
    /\ UNCHANGED <<msVars, ldVars, csVars, selVars, start, ccVars>>

ScaleInit ==
    /\ InitSession /\ InitLoader /\ InitCalibration /\ InitSelection /\ InitConcurrent
    /\ start \in Models
    /\ arg = NoArguments
    /\ ret = start
    /\ factors = <<>>
    /\ obj = "COLMAPBinaryParser"

\* apply_scale applied in sequence to every reconstruction
ScaleSpec == ScaleInit /\ [][ApplyScale]_vars

-----------------------------------------------------------------------------
(* MeasurementSystem.calibrate_scale statement by statement, on a session  *)
(* that a second thread reads.  The class holds no lock, so the second     *)
(* thread runs between any two statements.                                 *)

\* lines 318-329: the checks, the distance, and the assignment of
\* self.scale_factor
BeginCalibrate ==
    /\ cpc = "idle"
    /\ Len(calls) < MaxCalibrations
    /\ \E a \in CalibrationArgs :
          IF points3D.isNone
          THEN /\ last' = Err("calibrate_scale", a, "TypeError", <<>>)
               /\ UNCHANGED <<scale_factor, cpc, pre, obs>>
          ELSE IF ~Has(points3D, a[1]) \/ ~Has(points3D, a[2])
          THEN /\ last' = Err("calibrate_scale", a, "ValueError", "not found")
               /\ UNCHANGED <<scale_factor, cpc, pre, obs>>
          ELSE LET rd == calculate_distance(Xyz(points3D, a[1]), Xyz(points3D, a[2]))
               IN  IF rd = R(0)
                   THEN /\ last' = Err("calibrate_scale", a, "ValueError", "identical")
                        /\ UNCHANGED <<scale_factor, cpc, pre, obs>>
                   ELSE /\ scale_factor' = NewScale(a[3], rd)
                        /\ pre' = [args |-> a, reconstruction_distance |-> rd,
                                   scale_factor |-> scale_factor, points3D |-> points3D,
                                   cameras |-> cameras, images |-> images]
                        /\ obs' = NoObservation
                        /\ cpc' = "apply_scale"
                        /\ UNCHANGED last
    /\ UNCHANGED <<cameras, images, points3D, measurements, calls, tmp,
                   ldVars, csVars, selVars, scVars>>

\* lines 332-334, right-hand side: the call of apply_scale
CallApplyScale ==
    /\ cpc = "apply_scale"
    /\ tmp' = apply_scale(points3D.items, cameras, images.items, scale_factor)
    /\ cpc' = "points3D"
    /\ UNCHANGED <<msVars, pre, obs, ldVars, csVars, selVars, scVars>>

\* lines 332-334, left-hand side: self.points3D, self.cameras and
\* self.images are assigned one after the other
AssignScaled ==
    /\ cpc \in {"points3D", "cameras", "images"}
    /\ points3D' = IF cpc = "points3D" THEN Dict(tmp.points3D) ELSE points3D
    /\ cameras' = IF cpc = "cameras" THEN tmp.cameras ELSE cameras
    /\ images' = IF cpc = "images" THEN Dict(tmp.images) ELSE images
    /\ cpc' = CASE cpc = "points3D" -> "cameras"
                [] cpc = "cameras" -> "images"
                [] cpc = "images" -> "return"
    /\ UNCHANGED <<scale_factor, measurements, last, calls, tmp, pre, obs,
                   ldVars, csVars, selVars, scVars>>

\* lines 338-342: the return
ReturnCalibrate ==
    /\ cpc = "return"
    /\ cpc' = "idle"
    /\ calls' = Append(calls, pre.args)
    /\ last' = Ok("calibrate_scale", pre.args,
                  [scale_factor |-> scale_factor, known_distance |-> pre.args[3],
                   reconstruction_distance |-> pre.reconstruction_distance])
    /\ UNCHANGED <<cameras, images, points3D, scale_factor, measurements, tmp, pre, obs,
                   ldVars, csVars, selVars, scVars>>

\* what a reader finds in the session at this moment
Observation ==
    [at |-> cpc, scale_factor |-> scale_factor, points3D |-> points3D,
     images |-> images]

\* the second thread calls calculate_thickness
ReadThickness ==
    /\ ~points3D.isNone
    /\ \E pq \in ThicknessPairs : last' = calculate_thickness(pq[1], pq[2])
    /\ obs' = Observation
    /\ UNCHANGED <<cameras, images, points3D, scale_factor, measurements, calls,
                   cpc, tmp, pre, ldVars, csVars, selVars, scVars>>

\* the second thread calls get_point_info
ReadPointInfo ==
    /\ ~points3D.isNone
    /\ \E point_id \in PointIds : last' = get_point_info(point_id)
    /\ obs' = Observation
    /\ UNCHANGED <<cameras, images, points3D, scale_factor, measurements, calls,
                   cpc, tmp, pre, ldVars, csVars, selVars, scVars>>

ConcurrentNext ==
    \/ Load
    \/ BeginCalibrate
    \/ CallApplyScale
    \/ AssignScaled
    \/ ReturnCalibrate
    \/ ReadThickness
    \/ ReadPointInfo

\* A session that one thread calibrates while another measures
ConcurrentSpec == Init /\ [][ConcurrentNext]_vars


-----------------------------------------------------------------------------
(* The coordinates as loaded, from the records the files were written from *)

LoadedXyz(id) ==
    LET pt == CHOOSE pt \in {ScenePoints[i] : i \in 1..Len(ScenePoints)} : pt.id = id
    IN  <<R(pt.xyz[1]), R(pt.xyz[2]), R(pt.xyz[3])>>

RawDistance(p1, p2) == Norm(VSub(LoadedXyz(p2), LoadedXyz(p1)))

Loaded == ~points3D.isNone
Ids == Keys(points3D.items)

-----------------------------------------------------------------------------
(* Claims                                                                  *)

\* C1: after the first calibrate_scale of a session, on a pair at raw
\* distance r with known distance k, calculate_thickness of two existing
\* points at raw distance d returns d * (k / r).
C1_ThicknessAfterCalibration ==
    (Len(calls) = 1 /\ last.op = "calculate_thickness" /\ last.ok) =>
        last.val = RMul(RawDistance(last.args[1], last.args[2]),
                        RDiv(calls[1][3], RawDistance(calls[1][1], calls[1][2])))

\* C2: in every state of a loaded session, for every two existing points,
\* calculate_thickness returns the distance_meters add_measurement records.
C2_ThicknessIsMeasuredDistance ==
    Loaded => \A p1 \in Ids, p2 \in Ids :
                  Thickness(p1, p2) = Measurement(p1, p2, <<>>).distance_meters

\* C3: the scale factor of a MeasurementSystem and of a CalibrationSystem
\* is strictly positive in every state.
C3_ScalePositive == RPos(scale_factor) /\ RPos(cs.scale_factor)


\* the distance find_nearest_point computes for the i-th point of the model
Dist(i, target) == Norm(VSub(points3D.items[i].v.xyz, target))

Within(target, max_distance) ==
    {i \in 1..Len(points3D.items) : RLt(Dist(i, target), max_distance)}

NearestCall == last.op = "find_nearest_point"
Found == Index(points3D.items, last.val)

\* C4: find_nearest_point returns a point strictly closer to the target
\* than max_distance and no farther from it than any point of the model,
\* and fails exactly when no point is strictly closer than max_distance.
C4_NearestWithin ==
    NearestCall =>
        IF last.ok
        THEN /\ last.val \in Ids
             /\ Found \in Within(last.args[1], last.args[2])
             /\ \A j \in 1..Len(points3D.items) :
                   ~RLt(Dist(j, last.args[1]), Dist(Found, last.args[1]))
        ELSE Within(last.args[1], last.args[2]) = {}

\* a point was returned while another lies at exactly max_distance
C4_Witness ==
    /\ NearestCall /\ last.ok
    /\ \E j \in 1..Len(points3D.items) : Dist(j, last.args[1]) = last.args[2]

\* C5 as stated: among the points at the minimal distance, the one with
\* the lowest id is returned.
C5_LowestIdOnTie ==
    (NearestCall /\ last.ok) =>
        \A j \in 1..Len(points3D.items) :
            Dist(j, last.args[1]) = Dist(Found, last.args[1])
                => points3D.items[j].k >= last.val

\* C5 as amended: among the points at the minimal distance, the one that
\* comes first in the order of the loaded mapping (the order of the file)
\* is returned.
C5_FirstInFileOrderOnTie ==
    (NearestCall /\ last.ok) =>
        \A j \in 1..Len(points3D.items) :
            Dist(j, last.args[1]) = Dist(Found, last.args[1]) => j >= Found

\* two points are nearest and the one returned has the higher id
C5_Witness ==
    /\ NearestCall /\ last.ok
    /\ \E j \in 1..Len(points3D.items) :
          /\ j # Found
          /\ Dist(j, last.args[1]) = Dist(Found, last.args[1])
          /\ points3D.items[j].k < last.val

\* the dicts the three readers return on the directory fs
Parsed(name) == Reads(fs, name).out

\* C6: a step of load_reconstruction either leaves cameras, images and
\* points3D of the session as they are, or it ends a load without error
\* and sets all three to what the readers return on the three files.
C6_LoadAtomic ==
    [][\/ UNCHANGED <<cameras, images, points3D>>
       \/ /\ lpc' = "idle"
          /\ last'.op = "load_reconstruction"
          /\ last'.ok
          /\ cameras' = Dict(Parsed("cameras"))
          /\ images' = Dict(Parsed("images"))
          /\ points3D' = Dict(Parsed("points3D"))]_vars

\* a load failed on points3D.bin after cameras.bin and images.bin were
\* read, in a session that holds an earlier model
C6_Witness ==
    /\ lpc = "idle" /\ last.op = "load_reconstruction" /\ ~last.ok
    /\ last.err = "struct.error" /\ last.val = "points3D"
    /\ Loaded

LoadEnded == lpc = "idle" /\ last.op = "load_reconstruction"

\* C7: load_reconstruction ends with FileNotFoundError exactly when one of
\* the three files is absent, the file it names is absent, and no reader
\* runs before the three files have been tested.
C7_MissingFile ==
    /\ (ps.status # "none" \/ lpc \in FileNames \cup {"assign"}) => checked = FileNames
    /\ LoadEnded =>
          /\ (last.err = "FileNotFoundError") <=> (\E f \in FileNames : ~fs[f].exists)
          /\ last.err = "FileNotFoundError" => ~fs[last.val].exists

\* images.bin and points3D.bin are absent and the error names images.bin
C7_Witness ==
    /\ LoadEnded /\ last.err = "FileNotFoundError" /\ last.val = "images"
    /\ ~fs.points3D.exists

\* the file is a complete file cut short
IsTruncated(bytes) ==
    \E whole \in {CamerasBin, ImagesBin, Points3DBin, Points3DSortedBin} :
        /\ Len(bytes) < Len(whole)
        /\ bytes = SubSeq(whole, 1, Len(bytes))

\* C8: a reader of a truncated file never returns, and load_reconstruction
\* never holds a dict read from a truncated file.
C8_NoPartialMapping ==
    /\ ps.status = "returned" => ~IsTruncated(ps.file)
    /\ \A f \in FileNames : got[f] # <<>> => ~IsTruncated(fs[f].bytes)

\* a reader raised on a truncated file after it had stored a record
C8_Witness == ps.status = "raised" /\ ps.out # <<>> /\ IsTruncated(ps.file)

\* C9: every read_cameras, read_images and read_points3D call ends.
C9_ReadersTerminate == (ps.status = "running") ~> (ps.status # "running")

\* C10: a step that is a rejected calibrate_from_known_distance call
\* leaves the fields and the calibration file as they are, and a step that
\* is a rejected calibrate_scale call leaves scale_factor and the model as
\* they are.
C10_RejectedKeepsPrior ==
    [][/\ (/\ obj = "CalibrationSystem"
           /\ cslast'.op = "calibrate_from_known_distance"
           /\ ~cslast'.ok) => UNCHANGED <<cs, disk>>
       /\ (/\ obj = "MeasurementSystem"
           /\ last'.op = "calibrate_scale"
           /\ ~last'.ok) => UNCHANGED <<scale_factor, points3D, images, cameras,
                                        measurements>>]_vars

\* a calibrate_from_known_distance call was rejected on an instance that
\* holds a saved known-distance calibration
C10_Witness ==
    /\ obj = "CalibrationSystem"
    /\ cslast.op = "calibrate_from_known_distance" /\ ~cslast.ok
    /\ cs.calibration_method = "known_distance"
    /\ disk.state = "json"

\* a calibrate_scale call was rejected for identical points in a
\* calibrated session
C10_WitnessSession ==
    /\ obj = "MeasurementSystem"
    /\ last.op = "calibrate_scale" /\ ~last.ok /\ last.val = "identical"
    /\ calls # <<>>

\* the distance between the two points of the last CalibrationSystem call
CalRaw == Norm(VSub(cslast.args[2], cslast.args[1]))

\* C11: calibrate_from_known_distance(a, b, k) fails when the distance raw
\* between a and b is below 1e-6; otherwise it sets scale_factor = k / raw,
\* method known_distance, reference_distance k and unit "meters", and
\* returns the new scale_factor.
C11_KnownDistance ==
    cslast.op = "calibrate_from_known_distance" =>
        IF RLt(CalRaw, <<1, 1000000>>)
        THEN ~cslast.ok
        ELSE /\ cslast.ok
             /\ cs = [scale_factor |-> RDiv(cslast.args[3], CalRaw),
                      calibration_method |-> "known_distance",
                      reference_distance |-> cslast.args[3],
                      unit |-> "meters"]
             /\ cslast.val = RDiv(cslast.args[3], CalRaw)

\* points exactly 1e-6 apart were accepted on an instance whose file still
\* holds a manual calibration
C11_Witness ==
    /\ cslast.op = "calibrate_from_known_distance" /\ cslast.ok
    /\ CalRaw = <<1, 1000000>>
    /\ disk.state = "json" /\ disk.data.method = JsonString("manual")

\* C12: a record that add_measurement creates has scaled = true exactly when
\* a calibrate_scale call has succeeded on the session before.
C12_ScaledIffCalibrated ==
    (last.op = "add_measurement" /\ last.ok) =>
        (last.val.scaled.value <=> calls # <<>>)

\* the record of the file for a point id
LoadedPoint(id) ==
    CHOOSE pt \in {ScenePoints[i] : i \in 1..Len(ScenePoints)} : pt.id = id

\* C13: get_point_info returns the coordinates add_measurement records for
\* the point in the same state, the rgb and error of the file, and no normal.
C13_PointInfoIsStored ==
    (last.op = "get_point_info" /\ last.ok) =>
        /\ last.val.position
              = Measurement(last.args[1], last.args[1], <<>>).point1_xyz
        /\ last.val.rgb = LoadedPoint(last.args[1]).rgb
        /\ last.val.error = R(LoadedPoint(last.args[1]).error)
        /\ last.val.normal = <<"None">>

MeasurementCalls ==
    {"add_measurement", "calculate_angle", "calculate_thickness", "calculate_radius",
     "get_point_info"}

\* the point ids a measurement call was given
CallIds(call) ==
    IF call.op = "add_measurement" THEN SubSeq(call.args, 1, 2) ELSE call.args

\* C14: a step that is an add_measurement, calculate_angle,
\* calculate_thickness, calculate_radius or get_point_info call with a point
\* id that is not in the model, or a calculate_radius call with fewer than
\* 3 ids, fails and leaves points3D, images, cameras, scale_factor and the
\* measurement list as they are.
C14_BadInputRejected ==
    [][(/\ last'.op \in MeasurementCalls
        /\ \/ \E i \in 1..Len(CallIds(last')) : CallIds(last')[i] \notin Ids
           \/ last'.op = "calculate_radius" /\ Len(last'.args) < 3)
       => /\ ~last'.ok
          /\ UNCHANGED <<points3D, images, cameras, scale_factor, measurements>>]_vars

\* calculate_radius was rejected for two ids that both exist, in a session
\* that holds a measurement
C14_Witness ==
    /\ last.op = "calculate_radius" /\ ~last.ok
    /\ Len(last.args) < 3
    /\ \A i \in 1..Len(last.args) : last.args[i] \in Ids
    /\ measurements # <<>>

\* C15: every step keeps the records of the measurement list at their
\* positions with their contents, and the ids of the list are strictly
\* increasing in insertion order.
C15_AppendOnly ==
    [][/\ Len(measurements') >= Len(measurements)
       /\ SubSeq(measurements', 1, Len(measurements)) = measurements
       /\ \A i \in 1..Len(measurements'), j \in 1..Len(measurements') :
             i < j => measurements'[i].id < measurements'[j].id]_vars

\* two records, a calibration between them, and an export after them
C15_Witness ==
    /\ Len(measurements) = 2
    /\ ~measurements[1].scaled.value /\ measurements[2].scaled.value
    /\ last.op = "export_measurements"

\* the pieces of a text between the separators
RECURSIVE SplitFrom(_, _, _, _)
SplitFrom(text, sep, i, piece) ==
    IF i > Len(text) THEN <<piece>>
    ELSE IF text[i] = sep THEN <<piece>> \o SplitFrom(text, sep, i + 1, <<>>)
    ELSE SplitFrom(text, sep, i + 1, Append(piece, text[i]))

SplitOn(text, sep) == SplitFrom(text, sep, 1, <<>>)

\* C16: export_measurements("csv") of a session with N records is N + 1
\* lines: the header, then a row per record in insertion order whose fields
\* 1, 3, 4 and 5 are the record's id, point ids and distance.
C16_CsvLines ==
    (last.op = "export_measurements" /\ last.args[1] = "csv" /\ last.ok) =>
        /\ Len(SplitOn(last.val, "\n")) = Len(measurements) + 1
        /\ SplitOn(last.val, "\n")[1] = CsvHeader
        /\ \A i \in 1..Len(measurements) :
              /\ Len(SplitOn(SplitOn(last.val, "\n")[i + 1], ",")) = 8
              /\ SplitOn(SplitOn(last.val, "\n")[i + 1], ",")[1]
                    = <<ToString(measurements[i].id)>>
              /\ SplitOn(SplitOn(last.val, "\n")[i + 1], ",")[3]
                    = <<ToString(measurements[i].point1_id)>>
              /\ SplitOn(SplitOn(last.val, "\n")[i + 1], ",")[4]
                    = <<ToString(measurements[i].point2_id)>>
              /\ SplitOn(SplitOn(last.val, "\n")[i + 1], ",")[5]
                    = Fixed(measurements[i].distance_meters, 6)

\* the number of points a model directory holds: the count its points3D.bin
\* starts with, 0 without the file
NumPoints(file) ==
    IF file.exists THEN UnpackU(SubSeq(PointsBin(file.n, file.t), 1, 8)) ELSE 0

\* C17: _find_best_model returns (None, {}) for a sparse_path without a
\* model directory; otherwise it returns a directory of sparse_path that
\* holds at least as many points as every other one.
C17_MostPoints ==
    best.called =>
        IF DOMAIN sparse = {}
        THEN best.model = NoModel /\ best.stats = <<>>
        ELSE /\ best.model \in DOMAIN sparse
             /\ \A d \in DOMAIN sparse :
                   NumPoints(sparse[d]) <= NumPoints(sparse[best.model])

\* the number a directory name spells
RECURSIVE NameValue(_)
NameValue(name) ==
    IF name = <<>> THEN 0
    ELSE 10 * NameValue(SubSeq(name, 1, Len(name) - 1)) + name[Len(name)]

\* C18: of the directories that hold the greatest number of points,
\* _find_best_model returns the one with the lowest number as its name
\* (stated for files whose size // 48 is their number of points).
C18_LowestNumberOnTie ==
    (/\ best.called /\ DOMAIN sparse # {}
     /\ \A d \in DOMAIN sparse :
           sparse[d].exists => StSize(sparse[d]) \div 48 = NumPoints(sparse[d])) =>
        \A d \in DOMAIN sparse :
            (\A e \in DOMAIN sparse : NumPoints(sparse[e]) <= NumPoints(sparse[d]))
               => NameValue(best.model) <= NameValue(d)

\* C19: in the model a load_reconstruction call has assigned, the camera_id
\* of every image is a key of cameras and the image_id of every track entry
\* of every point is a key of images.
C19_ReferentialIntegrity ==
    (Loaded /\ lpc = "idle") =>
        /\ \A i \in 1..Len(images.items) :
              images.items[i].v.camera_id \in Keys(cameras.items)
        /\ \A i \in 1..Len(points3D.items) :
              \A j \in 1..Len(points3D.items[i].v.track) :
                  points3D.items[i].v.track[j][1] \in Keys(images.items)

SavingCalls ==
    {"calibrate_from_known_distance", "calibrate_from_camera_metadata",
     "set_manual_scale"}

\* C20: after a calibrate_from_known_distance, calibrate_from_camera_metadata
\* or set_manual_scale call that wrote the calibration file, a new
\* CalibrationSystem on that file holds the scale_factor, method,
\* reference_distance and unit of the instance that wrote it.
C20_RoundTrip ==
    (cslast.op \in SavingCalls /\ cslast.ok /\ saved = "ok") =>
        load_calibration(NoCalibration, disk) = cs

\* calibrate_from_camera_metadata saved an instance that still holds the
\* reference_distance of an earlier calibration
C20_Witness ==
    /\ cslast.op = "calibrate_from_camera_metadata" /\ cslast.ok /\ saved = "ok"
    /\ cs.reference_distance # <<"None">>
    /\ disk.state = "json"

\* C21: at every step the calibration file is left as it was or holds the
\* complete document of the instance that saved it; it is never empty or
\* the beginning of a document.
C21_FileNeverPartial ==
    [][\/ disk' = disk
       \/ disk'.state = "json" /\ disk'.data = Document(cs')]_vars

\* C29: reference_distance is set only under the method known_distance, in
\* the instance and in the saved file.
C29_ReferenceOnlyForKnownDistance ==
    /\ cs.reference_distance # <<"None">> => cs.calibration_method = "known_distance"
    /\ disk.state = "json" =>
          (disk.data.reference_distance # JsonNull
              => disk.data.method = JsonString("known_distance"))

\* C27: the current distance of every pair of points is its distance as
\* loaded times scale_factor.
C27_ScaleIsCumulative ==
    Loaded =>
        \A p1 \in Ids, p2 \in Ids :
            calculate_distance(Xyz(points3D, p1), Xyz(points3D, p2))
                = RMul(RawDistance(p1, p2), scale_factor)

\* C28: after a successful calibrate_scale(p1, p2, k) with k > 0 the stored
\* coordinates of p1 and p2 are k apart, and the record add_measurement
\* builds for them has distance_meters = k.
C28_CalibratedPairAtKnownDistance ==
    (last.op = "calibrate_scale" /\ last.ok /\ RPos(last.args[3])) =>
        /\ calculate_distance(Xyz(points3D, last.args[1]), Xyz(points3D, last.args[2]))
              = last.args[3]
        /\ Measurement(last.args[1], last.args[2], <<>>).distance_meters = last.args[3]

\* a second calibration succeeded on coordinates that the first had rescaled
C28_Witness ==
    /\ last.op = "calibrate_scale" /\ last.ok /\ RPos(last.args[3])
    /\ Len(calls) = 2
    /\ calls[1][3] # calls[2][3]
    /\ last.val.reconstruction_distance = calls[1][3]

\* C30: in a JSON export every record's distance_meters is the distance of
\* its two points in the coordinates the exported scale_factor belongs to.
C30_ExportInCurrentUnits ==
    (last.op = "export_measurements" /\ last.ok /\ last.args = <<"json">>) =>
        /\ last.val[1].scale_factor = scale_factor
        /\ \A i \in 1..Len(last.val[1].measurements) :
              last.val[1].measurements[i].distance_meters
                 = calculate_distance(
                      Xyz(points3D, last.val[1].measurements[i].point1_id),
                      Xyz(points3D, last.val[1].measurements[i].point2_id))

\* a == b on two floats: nan is equal to nothing, itself included
FloatEq(a, b) == ~a.nan /\ ~b.nan /\ a.arccos_of = b.arccos_of

\* the call with the outer arguments of the last calculate_angle exchanged
Reversed == calculate_angle(last.args[3], last.args[2], last.args[1])

\* C23 as stated: calculate_angle(p1, p2, p3) == calculate_angle(p3, p2, p1)
\* for every three point ids of the model.
C23_AngleSymmetric ==
    (last.op = "calculate_angle" /\ last.ok) =>
        Reversed.ok /\ FloatEq(last.val, Reversed.val)

\* C23: calculate_angle(p1, p2, p3) and calculate_angle(p3, p2, p1) return
\* the same angle when both outer points lie apart from the vertex p2, and
\* both return nan when one of them lies on it.
C23_AngleSymmetricOrNaN ==
    (last.op = "calculate_angle" /\ last.ok) =>
        /\ Reversed.ok
        /\ IF \/ Xyz(points3D, last.args[1]) = Xyz(points3D, last.args[2])
              \/ Xyz(points3D, last.args[3]) = Xyz(points3D, last.args[2])
           THEN last.val.nan /\ Reversed.val.nan
           ELSE FloatEq(last.val, Reversed.val)

\* an angle at a vertex between two other points, measured after a
\* calibration
C23_Witness ==
    /\ last.op = "calculate_angle" /\ last.ok /\ ~last.val.nan
    /\ last.args[1] # last.args[3]
    /\ calls # <<>>

ReadOnlyCalls ==
    {"find_nearest_point", "add_measurement", "calculate_angle", "calculate_thickness",
     "calculate_radius", "get_point_info", "export_measurements",
     "get_reconstruction_stats"}

\* C25: a step that is a successful find_nearest_point, add_measurement,
\* calculate_angle, calculate_thickness, calculate_radius, get_point_info,
\* export_measurements or get_reconstruction_stats call leaves points3D,
\* images, cameras and scale_factor as they are, and every one of them but
\* add_measurement leaves the measurement list as it is.
C25_OnlyCalibrationMutates ==
    [][(last'.op \in ReadOnlyCalls /\ last'.ok) =>
          /\ UNCHANGED <<points3D, images, cameras, scale_factor>>
          /\ last'.op # "add_measurement" => UNCHANGED measurements]_vars

\* get_point_info answered on a calibrated model that holds a measurement
C25_Witness ==
    /\ last.op = "get_point_info" /\ last.ok
    /\ scale_factor # R(1)
    /\ measurements # <<>>

\* get_reconstruction_stats answered on a calibrated model
C25_WitnessStats ==
    /\ last.op = "get_reconstruction_stats" /\ last.ok /\ last.val # <<>>
    /\ calls # <<>>

\* the product of the factors applied
RECURSIVE Product(_)
Product(fs_) == IF fs_ = <<>> THEN R(1) ELSE RMul(Head(fs_), Product(Tail(fs_)))

\* C22: apply_scale with f1 and then with f2 returns the point coordinates
\* and image translations that one apply_scale with f1 * f2 returns for the
\* same reconstruction.
C22_ScalingComposes ==
    Len(factors) = 2 =>
        /\ ret.points3D
              = apply_scale(start.points3D, start.cameras, start.images,
                            RMul(factors[1], factors[2])).points3D
        /\ ret.images
              = apply_scale(start.points3D, start.cameras, start.images,
                            RMul(factors[1], factors[2])).images

\* two different factors, neither of them 1 or 0, were applied in sequence
C22_Witness ==
    /\ Len(factors) = 2
    /\ factors[1] # factors[2]
    /\ {factors[1], factors[2]} \cap {R(0), R(1)} = {}
    /\ ret.points3D # start.points3D

\* C24: an apply_scale call returns the cameras it was given and mappings
\* with the keys of the ones it was given, in their order, in which xyz and
\* tvec are the given ones times the factor and every other field is the
\* given one; the mappings passed in are as they were.
C24_OnlyCoordinatesChange ==
    [][factors' # factors =>
          /\ arg'.points3D = ret.points3D /\ arg'.cameras = ret.cameras
          /\ arg'.images = ret.images
          /\ ret'.cameras = ret.cameras
          /\ Len(ret'.points3D) = Len(ret.points3D)
          /\ Len(ret'.images) = Len(ret.images)
          /\ \A i \in 1..Len(ret.points3D) :
                /\ ret'.points3D[i].k = ret.points3D[i].k
                /\ ret'.points3D[i].v.xyz
                      = VScale(ret.points3D[i].v.xyz, arg'.scale_factor)
                /\ ret'.points3D[i].v.rgb = ret.points3D[i].v.rgb
                /\ ret'.points3D[i].v.error = ret.points3D[i].v.error
                /\ ret'.points3D[i].v.track = ret.points3D[i].v.track
          /\ \A i \in 1..Len(ret.images) :
                /\ ret'.images[i].k = ret.images[i].k
                /\ ret'.images[i].v.tvec
                      = VScale(ret.images[i].v.tvec, arg'.scale_factor)
                /\ ret'.images[i].v.qvec = ret.images[i].v.qvec
                /\ ret'.images[i].v.camera_id = ret.images[i].v.camera_id
                /\ ret'.images[i].v.name = ret.images[i].v.name
                /\ ret'.images[i].v.points2D = ret.images[i].v.points2D]_vars

\* a reconstruction that an earlier call had scaled was scaled by 7/2
C24_Witness ==
    /\ Len(factors) = 2 /\ factors[2] = <<7, 2>> /\ factors[1] = <<1, 50>>
    /\ arg.points3D # ret.points3D
    /\ arg.images # ret.images

\* the session as the calibrate_scale in progress leaves it
PostCalibration ==
    apply_scale(pre.points3D.items, pre.cameras, pre.images.items,
                NewScale(pre.args[3], pre.reconstruction_distance))

\* C26: what a second thread reads from the session while calibrate_scale
\* runs is the scale_factor, points3D and images from before the call, or
\* the three of them from after it.
C26_CalibrationAtomic ==
    obs.at # "idle" =>
        \/ /\ obs.scale_factor = pre.scale_factor
           /\ obs.points3D = pre.points3D
           /\ obs.images = pre.images
        \/ /\ obs.scale_factor = NewScale(pre.args[3], pre.reconstruction_distance)
           /\ obs.points3D = Dict(PostCalibration.points3D)
           /\ obs.images = Dict(PostCalibration.images)


====
